---- MODULE Spec2Model ----
(***************************************************************************)
(* A model of the ETS template compiler (src/src/ets.ts, class Template    *)
(* and the functions around it).  Text is a sequence of one-character      *)
(* strings; the synthesized program is a sequence of statement records     *)
(* that the model of the JavaScript host executes.                         *)
(***************************************************************************)
EXTENDS Integers, Sequences, FiniteSets, TLC

VARIABLES
    written,       \* the template as its author wrote it: text and named markers
    text,          \* the template string handed to compile()
    options,       \* Template.options
    data,          \* the data context handed to the render function
    templateText,  \* Template.templateText
    regex,         \* Template.regex: the alternatives, in order
    matches,       \* the tokens of generateSource
    index,         \* position of generateSource's loop (1-based)
    mode,          \* Template.mode
    truncate,      \* Template.truncate
    currentLine,   \* Template.currentLine
    source,        \* Template.source: the statements generated so far
    pc,            \* where compile() stands
    error,         \* the error compile() or the render function raised
    output,        \* what the render function returned
    cache,         \* the template cache: its entries, least recently used first
    files,         \* the file system: filename -> content
    fresh,         \* how many other files have been rendered so far
    observed,      \* the function first stored for the watched file, and the
                   \* output of the last render of that file
    calls          \* the calls of the compiled function, in the order they
                   \* began: the frame of each

vars == <<written, text, options, data, templateText, regex, matches, index, mode,
          truncate, currentLine, source, pc, error, output,
          cache, files, fresh, observed, calls>>

compilerVars == <<written, text, options, data, templateText, regex, matches, index,
                  mode, truncate, currentLine, source, pc, error, output>>

cacheVars == <<cache, files, fresh, observed>>

-----------------------------------------------------------------------------
(* Characters and strings *)

LF == "\n"
CR == "\r"
TAB == "\t"
QUOTE == "\""
BACKSLASH == "\\"
SPACE == " "

RECURSIVE Cat(_)
Cat(ss) == IF ss = <<>> THEN <<>> ELSE Head(ss) \o Cat(Tail(ss))

StartsWith(s, p) ==
    /\ Len(p) <= Len(s)
    /\ SubSeq(s, 1, Len(p)) = p

\* s.slice(i) with a 1-based i
Drop(s, i) == SubSeq(s, i, Len(s))

Count(s, ch) == Cardinality({i \in 1..Len(s) : s[i] = ch})

\* String.prototype.lastIndexOf for a pattern p, 0-based, -1 when absent
LastIndexOf(s, p) ==
    LET hits == {i \in 1..(Len(s) - Len(p) + 1) : SubSeq(s, i, i + Len(p) - 1) = p}
    IN IF hits = {} THEN -1
       ELSE (CHOOSE i \in hits : \A j \in hits : j <= i) - 1

\* String.prototype.replace(p, r) for a string pattern p: the first occurrence
ReplaceFirst(s, p, r) ==
    LET hits == {i \in 1..(Len(s) - Len(p) + 1) : SubSeq(s, i, i + Len(p) - 1) = p}
    IN IF hits = {} \/ p = <<>> THEN s
       ELSE LET i == CHOOSE k \in hits : \A j \in hits : k <= j
            IN SubSeq(s, 1, i - 1) \o r \o Drop(s, i + Len(p))

-----------------------------------------------------------------------------
(* Delimiters and the scanning pattern *)

DEFAULT_OPEN_DELIMITER == "<"
DEFAULT_CLOSE_DELIMITER == ">"
DEFAULT_DELIMITER == "%"

\* '(<%%|%%>|<%=|<%-|<%_|<%#|<%|%>|-%>|_%>)': the alternatives in order
REGEX_STRING ==
    << <<"<", "%", "%">>, <<"%", "%", ">">>, <<"<", "%", "=">>,
       <<"<", "%", "-">>, <<"<", "%", "_">>, <<"<", "%", "#">>,
       <<"<", "%">>, <<"%", ">">>, <<"-", "%", ">">>, <<"_", "%", ">">> >>

\* str.replace(/%/g, delim).replace(/</g, open).replace(/>/g, close): the
\* three replacements run one after the other over the whole pattern, so a
\* delimiter that is itself "<" or ">" is rewritten by the later ones.
\* escapeStringRegexp makes each character match itself.
createRegex(opts) ==
    LET r1(ch) == IF ch = "%" THEN opts.delimiter ELSE ch
        r2(ch) == IF ch = "<" THEN opts.openDelimiter ELSE ch
        r3(ch) == IF ch = ">" THEN opts.closeDelimiter ELSE ch
    IN [a \in 1..Len(REGEX_STRING) |->
          [j \in 1..Len(REGEX_STRING[a]) |-> r3(r2(r1(REGEX_STRING[a][j])))]]

\* RegExp.prototype.exec without the g flag: the leftmost position where an
\* alternative matches, and there the first alternative in order.
\* index = 0 means no match; otherwise the 1-based position.
MatchesAt(pat, str, i) == {a \in 1..Len(pat) : StartsWith(Drop(str, i), pat[a])}

exec(pat, str) ==
    LET pos == {i \in 1..Len(str) : MatchesAt(pat, str, i) # {}}
    IN IF pos = {} THEN [index |-> 0, match |-> <<>>]
       ELSE LET i == CHOOSE k \in pos : \A j \in pos : k <= j
                a == CHOOSE k \in MatchesAt(pat, str, i) :
                         \A j \in MatchesAt(pat, str, i) : k <= j
            IN [index |-> i, match |-> pat[a]]

\* Template.parseTemplateText: the literal span before each match (when the
\* match is not at the start), the match, and at the end the rest if any.
RECURSIVE parseLoop(_, _, _)
parseLoop(pat, str, arr) ==
    LET result == exec(pat, str)
    IN IF result.index = 0
       THEN (IF str # <<>> THEN Append(arr, str) ELSE arr)
       ELSE LET arr1 == IF result.index # 1
                        THEN Append(arr, SubSeq(str, 1, result.index - 1))
                        ELSE arr
                str1 == Drop(str, result.index)
            IN parseLoop(pat, Drop(str1, Len(result.match) + 1),
                         Append(arr1, result.match))

parseTemplateTextDropsPrefix(pat, str) ==
    LET result == exec(pat, str)
    IN IF result.index = 0 THEN (IF str # <<>> THEN <<str>> ELSE <<>>)
       ELSE parseLoop(pat, Drop(str, result.index), <<>>)
parseTemplateText(pat, str) == parseLoop(pat, str, <<>>)

-----------------------------------------------------------------------------
(* generateSource: the text passes before scanning *)

IsSpace(ch) == ch \in {SPACE, TAB, LF, CR}
IsLineTerminator(ch) == ch \in {LF, CR}
IsBlank(ch) == ch \in {SPACE, TAB}

\* The end (exclusive) of the run of characters in set S that starts at p
RECURSIVE RunEnd(_, _, _)
RunEnd(s, p, S) ==
    IF p <= Len(s) /\ s[p] \in S THEN RunEnd(s, p + 1, S) ELSE p

\* .replace(/[\r\n]+/g, '\n')
RECURSIVE collapseLineBreaks(_)
collapseLineBreaks(s) ==
    IF s = <<>> THEN <<>>
    ELSE IF IsLineTerminator(s[1])
         THEN <<LF>> \o collapseLineBreaks(Drop(s, RunEnd(s, 1, {LF, CR})))
         ELSE <<s[1]>> \o collapseLineBreaks(Tail(s))

\* .replace(/^\s+|\s+$/gm, ''): at each position the first alternative needs
\* a line start and takes the whole whitespace run; the second takes the
\* longest part of the run that ends at the end of a line.
RECURSIVE stripLineWhitespace(_, _)
stripLineWhitespace(s, p) ==
    IF p > Len(s) THEN <<>>
    ELSE IF ~IsSpace(s[p]) THEN <<s[p]>> \o stripLineWhitespace(s, p + 1)
    ELSE LET q == RunEnd(s, p, {SPACE, TAB, LF, CR})
             atLineStart == p = 1 \/ IsLineTerminator(s[p - 1])
             ends == {e \in (p + 1)..q : e = Len(s) + 1 \/ IsLineTerminator(s[e])}
         IN IF atLineStart THEN stripLineWhitespace(s, q)
            ELSE IF ends # {}
                 THEN stripLineWhitespace(s, CHOOSE e \in ends : \A f \in ends : f <= e)
                 ELSE <<s[p]>> \o stripLineWhitespace(s, p + 1)

rmWhitespace(s) == stripLineWhitespace(collapseLineBreaks(s), 1)

\* The two markers the slurp patterns name: the pattern text is fixed, it is
\* not built from the configured delimiters.
SLURP_OPEN == <<"<", "%", "_">>
SLURP_CLOSE == <<"_", "%", ">">>

\* .replace(/[ \t]*<%_/gm, '<%_')
RECURSIVE slurpBefore(_, _, _)
slurpBefore(s, p, marker) ==
    IF p > Len(s) THEN <<>>
    ELSE LET q == RunEnd(s, p, {SPACE, TAB})
         IN IF StartsWith(Drop(s, q), marker)
            THEN marker \o slurpBefore(s, q + Len(marker), marker)
            ELSE <<s[p]>> \o slurpBefore(s, p + 1, marker)

\* .replace(/_%>[ \t]*/gm, '_%>')
RECURSIVE slurpAfter(_, _, _)
slurpAfter(s, p, marker) ==
    IF p > Len(s) THEN <<>>
    ELSE IF StartsWith(Drop(s, p), marker)
         THEN marker \o slurpAfter(s, RunEnd(s, p + Len(marker), {SPACE, TAB}), marker)
         ELSE <<s[p]>> \o slurpAfter(s, p + 1, marker)

slurp(s, opts) == slurpAfter(slurpBefore(s, 1, SLURP_OPEN), 1, SLURP_CLOSE)

\* The text generateSource scans: both passes, in the code's order
preprocess(s, opts) ==
    slurp(IF opts.rmWhitespace THEN rmWhitespace(s) ELSE s, opts)

-----------------------------------------------------------------------------
(* The mode state machine and the source synthesizer *)

NONE == "none"
EVAL == "eval"
ESCAPED == "escaped"
RAW == "raw"
COMMENT == "comment"
LITERAL == "literal"

\* The marker strings of a delimiter configuration
OD(opts) == <<opts.openDelimiter, opts.delimiter>>
DC(opts) == <<opts.delimiter, opts.closeDelimiter>>
CloseMarkers(opts) == {DC(opts), <<"-">> \o DC(opts), <<"_">> \o DC(opts)}

\* One statement of the synthesized program.
\*   lit:  ; __append("<s>")         eval: ; <s>
\*   esc:  ; __append(escapeFn(<s>)) raw:  ; __append(<s>)
\*   line: ; __line = <n>
Stmt(k, s) == [k |-> k, s |-> s, n |-> 0]
LineStmt(n) == [k |-> "line", s |-> <<>>, n |-> n]

\* (mutant) the backslash is not escaped
RECURSIVE escapeLiteralKeepsBackslash(_)
escapeLiteralKeepsBackslash(s) ==
    IF s = <<>> THEN <<>>
    ELSE (CASE s[1] = LF -> <<BACKSLASH, "n">>
            [] s[1] = CR -> <<BACKSLASH, "r">>
            [] s[1] = QUOTE -> <<BACKSLASH, QUOTE>>
            [] OTHER -> <<s[1]>>) \o escapeLiteralKeepsBackslash(Tail(s))

\* line.replace(/\\/g, '\\\\'), then \n, \r, and the double quote
RECURSIVE escapeLiteral(_)
escapeLiteral(s) ==
    IF s = <<>> THEN <<>>
    ELSE (CASE s[1] = BACKSLASH -> <<BACKSLASH, BACKSLASH>>
            [] s[1] = LF -> <<BACKSLASH, "n">>
            [] s[1] = CR -> <<BACKSLASH, "r">>
            [] s[1] = QUOTE -> <<BACKSLASH, QUOTE>>
            [] OTHER -> <<s[1]>>) \o escapeLiteral(Tail(s))

\* (mutant) every leading line break is removed, not one
stripLeadingLineBreaks(line) == Drop(line, RunEnd(line, 1, {CR, LF}))

\* (mutant) nothing is removed
stripNothing(line) == line

\* line.replace(/^(?:\r\n|\r|\n)/, '')
stripLeadingLineBreak(line) ==
    IF StartsWith(line, <<CR, LF>>) THEN Drop(line, 3)
    ELSE IF StartsWith(line, <<CR>>) \/ StartsWith(line, <<LF>>) THEN Drop(line, 2)
    ELSE line

\* Template.#addOutput on the scanner state st
addOutput(st, line) ==
    LET line1 == IF st.truncate THEN stripLeadingLineBreak(line) ELSE line
        st1 == [st EXCEPT !.truncate = FALSE]
    IN IF line1 = <<>> THEN st1
       ELSE [st1 EXCEPT !.source = Append(@, Stmt("lit", escapeLiteral(line1)))]

\* str.replace(/;(\s*$)/, '$1')
stripSemi(str) ==
    LET hits == {i \in 1..Len(str) :
                    /\ str[i] = ";"
                    /\ \A j \in (i + 1)..Len(str) : IsSpace(str[j])}
    IN IF hits = {} THEN str
       ELSE LET i == CHOOSE k \in hits : \A j \in hits : k <= j
            IN SubSeq(str, 1, i - 1) \o Drop(str, i + 1)

\* (mutant) no line break is added
closeLineCommentNever(line) == line

\* If '//' is found without a line break after it, add a line break
closeLineComment(line) ==
    IF LastIndexOf(line, <<"/", "/">>) > LastIndexOf(line, <<LF>>)
    THEN Append(line, LF) ELSE line

\* (mutant) ESCAPED content is appended without escapeFn
scanContentEscapedAsRaw(st, line) ==
    IF st.mode = EVAL THEN [st EXCEPT !.source = Append(@, Stmt("eval", closeLineComment(line)))]
    ELSE IF st.mode \in {ESCAPED, RAW}
    THEN [st EXCEPT !.source = Append(@, Stmt("raw", stripSemi(closeLineComment(line))))]
    ELSE IF st.mode = COMMENT THEN st
    ELSE addOutput(st, line)

\* A content token (the default case of the switch) in the current mode
scanContent(st, line) ==
    IF st.mode \in {EVAL, ESCAPED, RAW}
    THEN LET line1 == closeLineComment(line)
         IN IF st.mode = EVAL
            THEN [st EXCEPT !.source = Append(@, Stmt("eval", line1))]
            ELSE IF st.mode = ESCAPED
            THEN [st EXCEPT !.source = Append(@, Stmt("esc", stripSemi(line1)))]
            ELSE [st EXCEPT !.source = Append(@, Stmt("raw", stripSemi(line1)))]
    ELSE IF st.mode = COMMENT THEN st
    ELSE addOutput(st, line)

\* (mutant) the close marker is flushed as output in every mode
scanCloseAlwaysFlushed(st, line) ==
    [addOutput(st, line) EXCEPT !.mode = NONE,
                                !.truncate = StartsWith(line, <<"-">>) \/ StartsWith(line, <<"_">>)]

\* A close marker: flushed as output in LITERAL mode only
scanClose(st, line) ==
    LET st1 == IF st.mode = LITERAL THEN addOutput(st, line) ELSE st
    IN [st1 EXCEPT !.mode = NONE,
                   !.truncate = StartsWith(line, <<"-">>) \/ StartsWith(line, <<"_">>)]

\* (mutant) the de-doubled marker goes through the literal output
scanLiteralMarkerAsOutput(st, line, doubled, single) ==
    addOutput([st EXCEPT !.mode = LITERAL], ReplaceFirst(line, doubled, single))

\* A doubled-delimiter marker: LITERAL mode, and the de-doubled text is
\* written into the string literal as it is
scanLiteralMarker(st, line, doubled, single) ==
    [st EXCEPT !.mode = LITERAL,
               !.source = Append(@, Stmt("lit", ReplaceFirst(line, doubled, single)))]

\* The switch of Template.scanLine: the first case that equals the token, in
\* the code's order
scanSwitch(st, line, opts) ==
    LET o == <<opts.openDelimiter>>
        d == <<opts.delimiter>>
        c == <<opts.closeDelimiter>>
    IN IF line = o \o d \/ line = o \o d \o <<"_">> THEN [st EXCEPT !.mode = EVAL]
       ELSE IF line = o \o d \o <<"=">> THEN [st EXCEPT !.mode = ESCAPED]
       ELSE IF line = o \o d \o <<"-">> THEN [st EXCEPT !.mode = RAW]
       ELSE IF line = o \o d \o <<"#">> THEN [st EXCEPT !.mode = COMMENT]
       ELSE IF line = o \o d \o d THEN scanLiteralMarker(st, line, o \o d \o d, o \o d)
       ELSE IF line = d \o d \o c THEN scanLiteralMarker(st, line, d \o d \o c, d \o c)
       ELSE IF line \in {d \o c, <<"-">> \o d \o c, <<"_">> \o d \o c}
            THEN scanClose(st, line)
       ELSE scanContent(st, line)

\* (mutant) every token with a line break counts as one line
scanLineOneLinePerToken(st, line, opts) ==
    LET st1 == scanSwitch(st, line, opts)
    IN IF opts.compileDebug /\ Count(line, LF) # 0
       THEN [st1 EXCEPT !.currentLine = @ + 1,
                        !.source = Append(@, LineStmt(st1.currentLine + 1))]
       ELSE st1

\* Template.scanLine: the switch, then the line counter
scanLine(st, line, opts) ==
    LET newLineCount == Count(line, LF)
        st1 == scanSwitch(st, line, opts)
    IN IF opts.compileDebug /\ newLineCount # 0
       THEN [st1 EXCEPT !.currentLine = @ + newLineCount,
                        !.source = Append(@, LineStmt(st1.currentLine + newLineCount))]
       ELSE st1

\* The test generateSource makes before it scans token i
isOpeningTag(line, opts) ==
    /\ StartsWith(line, OD(opts))
    /\ ~StartsWith(line, OD(opts) \o <<opts.delimiter>>)

\* (mutant) the close marker is looked for right after the opening marker
hasClosingNextToken(toks, i, opts) ==
    /\ i + 1 <= Len(toks)
    /\ toks[i + 1] \in CloseMarkers(opts)

hasClosing(toks, i, opts) ==
    /\ i + 2 <= Len(toks)
    /\ toks[i + 2] \in CloseMarkers(opts)

closeTagMissing(toks, i, opts) ==
    /\ isOpeningTag(toks[i], opts)
    /\ ~hasClosing(toks, i, opts)

-----------------------------------------------------------------------------
(* The JavaScript host: esbuild.transform, the AsyncFunction constructor   *)
(* and the execution of the synthesized program.  The model knows the      *)
(* expressions the templates of this model are written with: nothing, an   *)
(* identifier, a double-quoted string literal, a number, null, undefined,  *)
(* include("<path>") with or without await and with or without an object   *)
(* literal of one property, throw new Error("<text>"), and the two halves  *)
(* of "<list>.forEach(<name> => {" ... "})".                               *)

LowerCase == {"a", "b", "c", "d", "e", "f", "g", "h", "i", "j", "k", "l", "m",
              "n", "o", "p", "q", "r", "s", "t", "u", "v", "w", "x", "y", "z"}
UpperCase == {"A", "B", "C", "D", "E", "F", "G", "H", "I", "J", "K", "L", "M",
              "N", "O", "P", "Q", "R", "S", "T", "U", "V", "W", "X", "Y", "Z"}
Digits == {"0", "1", "2", "3", "4", "5", "6", "7", "8", "9"}

\* JS_IDENTIFIER_REGEX = /^[a-zA-Z_$][\w$]*$/
JS_IDENTIFIER_REGEX(s) ==
    /\ s # <<>>
    /\ s[1] \in LowerCase \cup UpperCase \cup {"_", "$"}
    /\ \A i \in 2..Len(s) : s[i] \in LowerCase \cup UpperCase \cup Digits \cup {"_", "$"}

\* Words JavaScript reserves: they have the shape of an identifier and are
\* none (the ones this model's inputs use)
ReservedWords == { <<"i", "f">>, <<"i", "n">>, <<"d", "o">>, <<"f", "o", "r">>,
                   <<"n", "e", "w">>, <<"v", "a", "r">> }

IsJSIdentifier(s) == JS_IDENTIFIER_REGEX(s) /\ s \notin ReservedWords

Trim(s) ==
    LET keep == {i \in 1..Len(s) : ~IsSpace(s[i])}
    IN IF keep = {} THEN <<>>
       ELSE SubSeq(s, CHOOSE i \in keep : \A j \in keep : i <= j,
                      CHOOSE i \in keep : \A j \in keep : j <= i)

\* The lines of s: split at every line terminator
RECURSIVE SplitLines(_)
SplitLines(s) ==
    LET brk == {i \in 1..Len(s) : IsLineTerminator(s[i])}
    IN IF brk = {} THEN <<s>>
       ELSE LET i == CHOOSE k \in brk : \A j \in brk : k <= j
            IN <<SubSeq(s, 1, i - 1)>> \o SplitLines(Drop(s, i + 1))

\* Values: a string, a number (by its digits), a list of values, undefined,
\* null
Str(v) == [t |-> "str", v |-> v, l |-> <<>>]
Num(v) == [t |-> "num", v |-> v, l |-> <<>>]
List(l) == [t |-> "list", v |-> <<>>, l |-> l]
Undefined == [t |-> "undefined", v |-> <<>>, l |-> <<>>]
Null == [t |-> "null", v |-> <<>>, l |-> <<>>]

THROW == <<"t", "h", "r", "o", "w", " ", "n", "e", "w", " ", "E", "r", "r", "o", "r", "(">>
NULL == <<"n", "u", "l", "l">>
UNDEFINED == <<"u", "n", "d", "e", "f", "i", "n", "e", "d">>
FOREACH == <<".", "f", "o", "r", "E", "a", "c", "h", "(">>
ARROW == <<" ", "=", ">", " ", "{">>
LOOP_END == <<"}", ")">>

IsStringLiteral(w) ==
    /\ Len(w) >= 2
    /\ w[1] = QUOTE
    /\ w[Len(w)] = QUOTE
    /\ \A i \in 2..(Len(w) - 1) : w[i] \notin {QUOTE, BACKSLASH, LF, CR}

\* A decimal number as String() prints it back: 0, or digits with no leading 0
IsNumber(w) ==
    /\ w # <<>>
    /\ \A i \in 1..Len(w) : w[i] \in Digits
    /\ Len(w) > 1 => w[1] # "0"

\* An expression, trimmed: what it is
AWAIT == <<"a", "w", "a", "i", "t", " ">>
INCLUDE_CALL == <<"i", "n", "c", "l", "u", "d", "e", "(">>

NotAnObject == [ok |-> FALSE, props |-> <<>>]
NotArguments == [ok |-> FALSE, path |-> <<>>, given |-> FALSE, props |-> <<>>]
InvalidExpr == [op |-> "invalid", x |-> <<>>, y |-> <<>>]

Least(S) == CHOOSE k \in S : \A j \in S : k <= j

\* An object literal with at most one property, its value a string literal:
\* {} or {id: "text"}
KeyValue(key, lit) ==
    IF IsJSIdentifier(key) /\ IsStringLiteral(lit)
    THEN [ok |-> TRUE, props |-> <<[id |-> key, text |-> SubSeq(lit, 2, Len(lit) - 1)]>>]
    ELSE NotAnObject

Property(inner, colon) ==
    IF colon = {} THEN NotAnObject
    ELSE KeyValue(Trim(SubSeq(inner, 1, Least(colon) - 1)),
                  Trim(Drop(inner, Least(colon) + 1)))

Properties(inner) ==
    IF inner = <<>> THEN [ok |-> TRUE, props |-> <<>>]
    ELSE Property(inner, {i \in 1..Len(inner) : inner[i] = ":"})

Braced(w) ==
    IF Len(w) < 2 \/ w[1] # "{" \/ w[Len(w)] # "}" THEN NotAnObject
    ELSE Properties(Trim(SubSeq(w, 2, Len(w) - 1)))

ObjectLiteral(s) == Braced(Trim(s))

\* The arguments of include(...): a string literal, then perhaps an object
\* literal
OnlyPath(name) ==
    IF IsStringLiteral(name)
    THEN [ok |-> TRUE, path |-> SubSeq(name, 2, Len(name) - 1), given |-> FALSE,
          props |-> <<>>]
    ELSE NotArguments

PathAndData(name, obj) ==
    [ok |-> TRUE, path |-> SubSeq(name, 2, Len(name) - 1), given |-> TRUE,
     props |-> obj.props]

ArgumentsAt(args, comma) ==
    IF comma = {} THEN OnlyPath(Trim(args))
    ELSE PathAndData(Trim(SubSeq(args, 1, Least(comma) - 1)),
                     ObjectLiteral(Drop(args, Least(comma) + 1)))

IncludeArguments(args) ==
    ArgumentsAt(args, {i \in 1..Len(args) :
                         /\ args[i] = ","
                         /\ IsStringLiteral(Trim(SubSeq(args, 1, i - 1)))
                         /\ ObjectLiteral(Drop(args, i + 1)).ok})

\* include(...) awaited or not: y holds what the second argument is
IncludeOf(op, args) ==
    IF args.ok THEN [op |-> op, x |-> args.path,
                     y |-> [given |-> args.given, props |-> args.props]]
    ELSE InvalidExpr

IncludeOp(op, call) ==
    IF StartsWith(call, INCLUDE_CALL) /\ call[Len(call)] = ")"
    THEN IncludeOf(op, IncludeArguments(SubSeq(call, Len(INCLUDE_CALL) + 1, Len(call) - 1)))
    ELSE InvalidExpr

IncludeCall(w) ==
    IF StartsWith(w, AWAIT) THEN IncludeOp("include", Trim(Drop(w, Len(AWAIT) + 1)))
    ELSE IncludeOp("promise", w)

ParseExpr(s) ==
    LET w == Trim(s)
    IN IF w = <<>> THEN [op |-> "nothing", x |-> <<>>, y |-> <<>>]
       ELSE IF w = NULL THEN [op |-> "null", x |-> <<>>, y |-> <<>>]
       ELSE IF w = UNDEFINED THEN [op |-> "undefined", x |-> <<>>, y |-> <<>>]
       ELSE IF IsNumber(w) THEN [op |-> "number", x |-> w, y |-> <<>>]
       ELSE IF IsJSIdentifier(w) THEN [op |-> "ident", x |-> w, y |-> <<>>]
       ELSE IF IsStringLiteral(w)
            THEN [op |-> "string", x |-> SubSeq(w, 2, Len(w) - 1), y |-> <<>>]
       ELSE IncludeCall(w)

\* One line of a statement fragment
ParseStatement(s) ==
    LET w == Trim(s)
        dot == {i \in 1..Len(w) : w[i] = "."}
        i == CHOOSE k \in dot : \A j \in dot : k <= j
        rest == Drop(w, i + Len(FOREACH))
        n == Len(rest) - Len(ARROW)
        arg == SubSeq(w, Len(THROW) + 1, Len(stripSemi(w)) - 1)
    IN IF w = LOOP_END THEN [op |-> "close", x |-> <<>>, y |-> <<>>]
       ELSE IF /\ StartsWith(w, THROW)
               /\ stripSemi(w)[Len(stripSemi(w))] = ")"
               /\ IsStringLiteral(arg)
            THEN [op |-> "throw", x |-> SubSeq(arg, 2, Len(arg) - 1), y |-> <<>>]
       ELSE IF /\ dot # {}
               /\ StartsWith(Drop(w, i), FOREACH)
               /\ n >= 1
               /\ Drop(rest, n + 1) = ARROW
               /\ IsJSIdentifier(SubSeq(w, 1, i - 1))
               /\ IsJSIdentifier(SubSeq(rest, 1, n))
            THEN [op |-> "open", x |-> SubSeq(w, 1, i - 1), y |-> SubSeq(rest, 1, n)]
       ELSE ParseExpr(w)

\* The value of the string literal "<s>": its escapes resolved.  ok is false
\* when the text between the quotes is no string literal body.
RECURSIVE StringLiteralValue(_)
StringLiteralValue(s) ==
    IF s = <<>> THEN [ok |-> TRUE, v |-> <<>>]
    ELSE IF s[1] \in {QUOTE, LF, CR} THEN [ok |-> FALSE, v |-> <<>>]
    ELSE IF s[1] = BACKSLASH
         THEN IF Len(s) = 1 \/ s[2] \in Digits \cup {"x", "u"}
              THEN [ok |-> FALSE, v |-> <<>>]
              ELSE LET ch == IF s[2] = "n" THEN <<LF>>
                             ELSE IF s[2] = "r" THEN <<CR>>
                             ELSE IF s[2] = "t" THEN <<TAB>>
                             ELSE IF s[2] = LF THEN <<>>
                             ELSE IF s[2] = CR
                                  THEN <<>>
                             ELSE <<s[2]>>
                   IN CHOOSE lit \in {[ok |-> r.ok, v |-> ch \o r.v] :
                                        r \in {StringLiteralValue(Drop(s, 3))}} : TRUE
         ELSE CHOOSE lit \in {[ok |-> r.ok, v |-> <<s[1]>> \o r.v] :
                                r \in {StringLiteralValue(Tail(s))}} : TRUE

\* The operations of one statement of the synthesized program: op is what
\* runs, kind the expression's kind, x and y its names or text
Op(op, kind, x, y, n) == [op |-> op, kind |-> kind, x |-> x, y |-> y, n |-> n]

ParseStmt(stmt) ==
    IF stmt.k = "line" THEN <<Op("line", "", <<>>, <<>>, stmt.n)>>
    ELSE IF stmt.k = "lit"
         THEN LET r == StringLiteralValue(stmt.s)
              IN <<Op(IF r.ok THEN "lit" ELSE "invalid", "", r.v, <<>>, 0)>>
    ELSE IF stmt.k = "eval"
         THEN LET ls == SplitLines(stmt.s)
              IN [i \in 1..Len(ls) |->
                     LET e == ParseStatement(ls[i])
                     IN IF e.op \in {"ident", "string", "nothing", "null", "undefined",
                                   "number", "include", "promise"}
                        THEN Op("expr", e.op, e.x, e.y, 0)
                        ELSE Op(e.op, "", e.x, e.y, 0)]
    ELSE LET e == ParseExpr(stmt.s)
         IN <<Op(IF e.op = "invalid" THEN "invalid" ELSE stmt.k, e.op, e.x, e.y, 0)>>

RECURSIVE ParseProgram(_)
ParseProgram(src) ==
    IF src = <<>> THEN <<>> ELSE ParseStmt(Head(src)) \o ParseProgram(Tail(src))

\* The nesting depth after each operation; the program is well formed when
\* it never drops below zero and ends at zero
RECURSIVE Depth(_, _)
Depth(ops, i) ==
    IF i = 0 THEN 0
    ELSE Depth(ops, i - 1) + (IF ops[i].op = "open" THEN 1
                              ELSE IF ops[i].op = "close" THEN -1 ELSE 0)

\* esbuild.transform and the function constructor accept the body
ProgramParses(src) ==
    \A ops \in {ParseProgram(src)} :
       /\ \A i \in 1..Len(ops) : ops[i].op # "invalid" /\ Depth(ops, i) >= 0
       /\ Depth(ops, Len(ops)) = 0

\* Environments: bindings, the last one for a name wins
Bind(id, val) == [id |-> id, val |-> val]

Bound(env, id) == \E i \in 1..Len(env) : env[i].id = id

Lookup(env, id) ==
    LET hits == {i \in 1..Len(env) : env[i].id = id}
    IN env[CHOOSE i \in hits : \A j \in hits : j <= i].val

\* String(value)
RECURSIVE StringOf(_)
StringOf(val) ==
    IF val.t \in {"str", "num"} THEN val.v
    ELSE IF val.t = "undefined" THEN UNDEFINED
    ELSE IF val.t = "null" THEN NULL
    ELSE IF val.l = <<>> THEN <<>>
    ELSE IF Len(val.l) = 1 THEN StringOf(val.l[1])
    ELSE StringOf(val.l[1]) \o <<",">> \o StringOf(List(Tail(val.l)))

\* xmlEscape
RECURSIVE xmlEscape(_)
xmlEscape(s) ==
    IF s = <<>> THEN <<>>
    ELSE (IF s[1] = "&" THEN <<"&", "a", "m", "p", ";">>
          ELSE IF s[1] = "<" THEN <<"&", "l", "t", ";">>
          ELSE IF s[1] = ">" THEN <<"&", "g", "t", ";">>
          ELSE IF s[1] = QUOTE THEN <<"&", "q", "u", "o", "t", ";">>
          ELSE <<s[1]>>) \o xmlEscape(Tail(s))

\* (mutant) every falsy value escapes to the empty string
customEscapeFalsy(val) ==
    IF val.t \in {"undefined", "null"} \/ val.v \in {<<>>, <<"0">>} THEN <<>>
    ELSE xmlEscape(StringOf(val))

\* customEscape, the default of options.escape
customEscape(val) ==
    IF val.t \in {"undefined", "null"} THEN <<>> ELSE xmlEscape(StringOf(val))

\* function __append(s) { if (s !== undefined && s !== null) __output += s }
append(out, val) ==
    IF val.t \in {"undefined", "null"} THEN out ELSE out \o StringOf(val)

\* An escape function given as options.escape: one that returns 'zooby'
\* whatever it is given
ZOOBY == <<"z", "o", "o", "b", "y">>

\* escapeFn(value): options.escape, customEscape unless one was given
escapeFn(escape, val) == IF escape = "customEscape" THEN customEscape(val) ELSE ZOOBY

-----------------------------------------------------------------------------
(* Options, errors and the whole of compile() as a function *)

Name(v) == [set |-> TRUE, v |-> v]
Unset == [set |-> FALSE, v |-> <<>>]
DEFAULT_LOCALS_NAME == <<"l", "o", "c", "a", "l", "s">>

\* The options record the constructor builds from no options at all
ROOT_DIRECTORY == <<"/">>

DefaultOptions ==
    [openDelimiter |-> DEFAULT_OPEN_DELIMITER,
     closeDelimiter |-> DEFAULT_CLOSE_DELIMITER,
     delimiter |-> DEFAULT_DELIMITER,
     rmWhitespace |-> FALSE,
     compileDebug |-> TRUE,
     outputFunctionName |-> Unset,
     localsName |-> DEFAULT_LOCALS_NAME,
     filename |-> Unset,
     escape |-> "customEscape",
     cache |-> FALSE,
     root |-> ROOT_DIRECTORY,
     views |-> Unset]

NoDebugOptions == [DefaultOptions EXCEPT !.compileDebug = FALSE]

\* An error object: its name, its message (a fixed phrase of the program and
\* the text that follows it, or the text alone), its path attribute
Err(name, message, detail) ==
    [name |-> name, message |-> message, detail |-> detail, path |-> Unset]
NoError == Err("", "", <<>>)

OUTPUT_NAME_INVALID == "outputFunctionName is not a valid JS identifier."
LOCALS_NAME_INVALID == "localsName is not a valid JS identifier."
NO_CLOSE_TAG == "Could not find matching close tag for"
WHILE_COMPILING == "while compiling ets"
IN_FILE == <<SPACE, "i", "n", SPACE>>

\* What compile() throws when the function constructor throws a SyntaxError:
\* the message with ' in <filename>' when options.filename is set and not
\* empty, then 'while compiling ets' and the pointer to EJS-Lint
constructorSyntaxError(opts) ==
    Err("SyntaxError", WHILE_COMPILING,
        IF opts.filename.set /\ opts.filename.v # <<>> THEN IN_FILE \o opts.filename.v
        ELSE <<>>)

\* What compile() throws when esbuild.transform rejects the body: the error
\* of esbuild, as it is
transformError == Err("TransformError", "", <<>>)

\* The two checks of the constructor, in order
constructorError(opts) ==
    IF opts.outputFunctionName.set /\ ~JS_IDENTIFIER_REGEX(opts.outputFunctionName.v)
    THEN Err("Error", OUTPUT_NAME_INVALID, <<>>)
    ELSE IF ~JS_IDENTIFIER_REGEX(opts.localsName)
    THEN Err("Error", LOCALS_NAME_INVALID, <<>>)
    ELSE NoError

InitialScan == [mode |-> NONE, truncate |-> FALSE, currentLine |-> 1, source |-> <<>>]

\* The loop of generateSource over the tokens from i on: the scanner state
\* at the end, or the token whose close tag is missing
RECURSIVE scanFrom(_, _, _, _)
scanFrom(toks, i, st, opts) ==
    IF i > Len(toks) THEN [ok |-> TRUE, st |-> st, line |-> <<>>]
    ELSE IF closeTagMissing(toks, i, opts) THEN [ok |-> FALSE, st |-> st, line |-> toks[i]]
    ELSE CHOOSE r \in {scanFrom(toks, i + 1, st2, opts) :
                         st2 \in {scanLine(st, toks[i], opts)}} : TRUE

\* What the function constructor rejects although the body parses: a
\* parameter or variable name that is a reserved word
constructorRejects(opts) ==
    \/ opts.localsName \in ReservedWords
    \/ opts.outputFunctionName.set /\ opts.outputFunctionName.v \in ReservedWords

\* compile(template, options): new Template(...).compile()
\* What compile() makes of the scan of the template's tokens
Compiling(opts, scan) ==
    LET ce == constructorError(opts)
    IN IF ce # NoError THEN [ok |-> FALSE, error |-> ce, source |-> <<>>]
       ELSE IF ~scan.ok
            THEN [ok |-> FALSE, error |-> Err("Error", NO_CLOSE_TAG, scan.line), source |-> <<>>]
       ELSE IF ~ProgramParses(scan.st.source)
            THEN [ok |-> FALSE, error |-> transformError, source |-> <<>>]
       ELSE IF constructorRejects(opts)
            THEN [ok |-> FALSE, error |-> constructorSyntaxError(opts), source |-> <<>>]
       ELSE [ok |-> TRUE, error |-> NoError, source |-> scan.st.source]

Compile(template, opts) ==
    CHOOSE c \in
      {Compiling(opts, scan) :
         scan \in {scanFrom(toks, 1, InitialScan, opts) :
                     toks \in {parseTemplateText(createRegex(opts),
                                                 preprocess(template, opts))}}} : TRUE

\* curr.toString()
Digit(n) == <<"0", "1", "2", "3", "4", "5", "6", "7", "8", "9">>[n + 1]
RECURSIVE NumToStr(_)
NumToStr(n) == IF n < 10 THEN <<Digit(n)>> ELSE Append(NumToStr(n \div 10), Digit(n % 10))

\* source.split('\n')
RECURSIVE SplitLF(_)
SplitLF(s) ==
    LET brk == {i \in 1..Len(s) : s[i] = LF}
    IN IF brk = {} THEN <<s>>
       ELSE LET i == CHOOSE k \in brk : \A j \in brk : k <= j
            IN <<SubSeq(s, 1, i - 1)>> \o SplitLF(Drop(s, i + 1))

\* lines.join('\n')
RECURSIVE JoinLF(_)
JoinLF(ls) ==
    IF ls = <<>> THEN <<>>
    ELSE IF Len(ls) = 1 THEN ls[1]
    ELSE ls[1] \o <<LF>> \o JoinLF(Tail(ls))

Max(a, b) == IF a >= b THEN a ELSE b
Min(a, b) == IF a <= b THEN a ELSE b

CURRENT_LINE == <<SPACE, ">", ">", SPACE>>
OTHER_LINE == <<SPACE, SPACE, SPACE, SPACE>>
BAR == <<"|", SPACE>>

\* The error context of rethrow: lines.slice(start, end), each with its mark
\* and number
context(str, lineno) ==
    LET lines == SplitLF(str)
        start == Max(lineno - 3, 0)
        end == Min(Len(lines), lineno + 3)
    IN JoinLF([i \in 1..Max(end - start, 0) |->
                  LET curr == (i - 1) + start + 1
                  IN (IF curr = lineno THEN CURRENT_LINE ELSE OTHER_LINE)
                     \o NumToStr(curr) \o BAR \o lines[start + i]])

\* (mutant) the filename goes into the error as it is
rethrowUnescaped(err, str, filename, lineno, escape) ==
    [err EXCEPT
       !.path = Name(StringOf(filename)),
       !.detail = StringOf(filename) \o <<":">> \o NumToStr(lineno) \o <<LF>>
                  \o context(str, lineno) \o <<LF, LF>> \o err.detail]

\* (mutant) an error that has a path keeps it
rethrowKeepsPath(err, str, filename, lineno, escape) ==
    [err EXCEPT
       !.path = IF err.path.set THEN err.path ELSE Name(escapeFn(escape, filename)),
       !.detail = escapeFn(escape, filename) \o <<":">> \o NumToStr(lineno) \o <<LF>>
                  \o context(str, lineno) \o <<LF, LF>> \o err.detail]

\* rethrow({error, source, filename, lineno, escape}): the error it throws.
\* filename = escape(filename) comes first, and both escape functions of this
\* model return a string for every value, undefined included, so the
\* `filename ?? 'ets'` of the message always takes the escaped filename.
rethrow(err, str, filename, lineno, escape) ==
    LET escaped == escapeFn(escape, filename)
    IN [err EXCEPT
          !.path = Name(escaped),
          !.detail = escaped \o <<":">> \o NumToStr(lineno) \o <<LF>>
                     \o context(str, lineno) \o <<LF, LF>> \o err.detail]

\* JSON.stringify of a string, without the quotes around it
RECURSIVE jsonStringify(_)
jsonStringify(s) ==
    IF s = <<>> THEN <<>>
    ELSE (IF s[1] = QUOTE THEN <<BACKSLASH, QUOTE>>
          ELSE IF s[1] = BACKSLASH THEN <<BACKSLASH, BACKSLASH>>
          ELSE IF s[1] = LF THEN <<BACKSLASH, "n">>
          ELSE IF s[1] = CR THEN <<BACKSLASH, "r">>
          ELSE IF s[1] = TAB THEN <<BACKSLASH, "t">>
          ELSE <<s[1]>>) \o jsonStringify(Tail(s))

\* var __filename = JSON.stringify(options.filename), or undefined
sanitizedFilename(opts) ==
    IF opts.filename.set /\ opts.filename.v # <<>>
    THEN Str(StringLiteralValue(jsonStringify(opts.filename.v)).v)
    ELSE Undefined

\* var __lines = JSON.stringify(this.templateText)
sourceLines(str) == StringLiteralValue(jsonStringify(str)).v

NOT_DEFINED == <<" ", "i", "s", " ", "n", "o", "t", " ", "d", "e", "f", "i", "n", "e", "d">>
NOT_A_FUNCTION == <<".", "f", "o", "r", "E", "a", "c", "h", " ", "i", "s", " ", "n", "o", "t", " ", "a", " ", "f", "u", "n", "c", "t", "i", "o", "n">>

\* The run of the program: st = [out, line, err, msg, esc, data, opts, fs,
\* cache]: the accumulator __output, __line, the name and message of what was
\* thrown, the escapeFn argument, the data and the options that include closes
\* over, the file system and the template cache; err is "" until an operation
\* throws, and nothing runs after that
Throw(st, name, msg) ==
    [st EXCEPT !.err = name, !.text = "", !.msg = msg, !.path = Unset]

\* The index of the "close" that ends the loop opened at i
LoopEnd(ops, i) ==
    CHOOSE j \in (i + 1)..Len(ops) :
        /\ Depth(ops, j) = Depth(ops, i) - 1
        /\ \A k \in (i + 1)..(j - 1) : Depth(ops, k) >= Depth(ops, i)

-----------------------------------------------------------------------------
(* Paths of included files.  A path is its text; the paths met here have no
   "." or ".." segment and no trailing separator *)

ETS_EXTENSION == <<".", "e", "t", "s">>
CWD == <<"/", "w">>
DOT == <<".">>

IsAbsolute(p) == p # <<>> /\ p[1] = "/"

LastSeparator(p) ==
    LET at == {i \in 1..Len(p) : p[i] = "/"}
    IN IF at = {} THEN 0 ELSE CHOOSE i \in at : \A j \in at : j <= i

\* path.dirname
dirname(p) ==
    IF LastSeparator(p) = 0 THEN DOT
    ELSE IF LastSeparator(p) = 1 THEN ROOT_DIRECTORY
    ELSE SubSeq(p, 1, LastSeparator(p) - 1)

\* path.extname: from the last dot of the last segment, when that dot is not
\* the segment's first character
extname(p) ==
    LET base == Drop(p, LastSeparator(p) + 1)
        dots == {i \in 2..Len(base) : base[i] = "."}
    IN IF dots = {} THEN <<>> ELSE Drop(base, CHOOSE i \in dots : \A j \in dots : j <= i)

\* path.resolve(from, to)
pathResolve(from, to) ==
    LET dir == IF IsAbsolute(from) THEN from
               ELSE IF from = DOT THEN CWD
               ELSE CWD \o <<"/">> \o from
    IN IF IsAbsolute(to) THEN to
       ELSE IF dir = ROOT_DIRECTORY THEN dir \o to
       ELSE dir \o <<"/">> \o to

resolveInclude(name, filename, isDir) ==
    LET includePath == pathResolve(IF isDir THEN filename ELSE dirname(filename), name)
    IN IF extname(name) = <<>> THEN includePath \o ETS_EXTENSION ELSE includePath

\* fs.existsSync
existsSync(fs, p) == p \in DOMAIN fs

PATH_NOT_FOUND == <<"r", "e", "s", "o", "l", "v", "e", "P", "a", "t", "h", "s", "(", ")", ":", " ", "p", "a", "t", "h", " ", "n", "o", "t", " ", "f", "o", "u", "n", "d">>
COULD_NOT_FIND_INCLUDE == <<"C", "o", "u", "l", "d", " ", "n", "o", "t", " ", "f", "i", "n", "d", " ", "t", "h", "e", " ", "i", "n", "c", "l", "u", "d", "e", " ", "f", "i", "l", "e", " ", QUOTE>>
NO_SUCH_FILE == <<"E", "N", "O", "E", "N", "T", ":", " ", "n", "o", " ", "s", "u", "c", "h", " ", "f", "i", "l", "e", " ", "o", "r", " ", "d", "i", "r", "e", "c", "t", "o", "r", "y">>
NO_FILE_NAME == <<"I", "n", "t", "e", "r", "n", "a", "l", " ", "E", "T", "S", " ", "e", "r", "r", "o", "r", ":", " ", "n", "o", " ", "f", "i", "l", "e", " ", "n", "a", "m", "e", " ", "o", "r", " ", "t", "e", "m", "p", "l", "a", "t", "e", " ", "p", "r", "o", "v", "i", "d", "e", "d">>
CACHE_REQUIRES_FILENAME == <<"c", "a", "c", "h", "e", " ", "o", "p", "t", "i", "o", "n", " ", "r", "e", "q", "u", "i", "r", "e", "s", " ", "a", " ", "f", "i", "l", "e", "n", "a", "m", "e">>

\* What a function that returns a path or throws does
Found(p) == [threw |-> FALSE, msg |-> <<>>, path |-> Name(p)]
NotFound == [threw |-> FALSE, msg |-> <<>>, path |-> Unset]
PathError(msg) == [threw |-> TRUE, msg |-> msg, path |-> Unset]

\* resolvePaths(name, paths): the first directory that holds the file, or the
\* error thrown when none does
RECURSIVE resolvePaths(_, _, _)
resolvePaths(name, paths, fs) ==
    IF paths = <<>> THEN PathError(PATH_NOT_FOUND)
    ELSE IF existsSync(fs, resolveInclude(name, Head(paths), TRUE))
         THEN Found(resolveInclude(name, Head(paths), TRUE))
    ELSE resolvePaths(name, Tail(paths), fs)

RECURSIVE stripLeadingSeparators(_)
stripLeadingSeparators(p) ==
    IF p # <<>> /\ p[1] = "/" THEN stripLeadingSeparators(Tail(p)) ELSE p

\* (mutant) the views directories are tried before the directory of the file
getIncludePathViewsFirst(origPath, opts, fs) ==
    LET filePath == resolveInclude(origPath, opts.filename.v, FALSE)
        besideFile == opts.filename.set /\ opts.filename.v # <<>>
                      /\ existsSync(fs, filePath)
        inViews == resolvePaths(origPath, opts.views.v, fs)
    IN IF IsAbsolute(origPath)
       THEN Found(resolveInclude(stripLeadingSeparators(origPath), opts.root, TRUE))
       ELSE IF opts.views.set /\ inViews.path.set THEN inViews
       ELSE IF besideFile THEN Found(filePath)
       ELSE IF opts.views.set THEN inViews
       ELSE PathError(COULD_NOT_FIND_INCLUDE \o escapeFn(opts.escape, Str(origPath))
                      \o <<QUOTE>>)

\* getIncludePath(origPath, options); options.root is one directory and
\* options.includer is no function
getIncludePath(origPath, opts, fs) ==
    LET filePath == resolveInclude(origPath, opts.filename.v, FALSE)
        besideFile == opts.filename.set /\ opts.filename.v # <<>>
                      /\ existsSync(fs, filePath)
        inViews == resolvePaths(origPath, opts.views.v, fs)
    IN IF IsAbsolute(origPath)
       THEN Found(resolveInclude(stripLeadingSeparators(origPath), opts.root, TRUE))
       ELSE IF besideFile THEN Found(filePath)
       ELSE IF opts.views.set /\ (inViews.threw \/ inViews.path.set) THEN inViews
       ELSE PathError(COULD_NOT_FIND_INCLUDE \o escapeFn(opts.escape, Str(origPath))
                      \o <<QUOTE>>)

-----------------------------------------------------------------------------
(* The template cache *)

CacheMax == 20

Has(c, key) == \E i \in 1..Len(c) : c[i].key = key
IndexOf(c, key) == CHOOSE i \in 1..Len(c) : c[i].key = key
Without(c, i) == SubSeq(c, 1, i - 1) \o SubSeq(c, i + 1, Len(c))

\* cache.get(key): the entry becomes the most recently used
cacheGet(c, key) ==
    LET i == IndexOf(c, key)
    IN [fn |-> c[i].fn, cache |-> Append(Without(c, i), c[i])]

\* (mutant) cache.set adds an entry without looking for the key
cacheSetAnother(c, key, fn) == Append(c, [key |-> key, fn |-> fn])

\* cache.set(key, fn): a new key evicts the least recently used entry when
\* the cache is full
cacheSet(c, key, fn) ==
    IF Has(c, key) THEN Append(Without(c, IndexOf(c, key)), [key |-> key, fn |-> fn])
    ELSE IF Len(c) >= CacheMax THEN Append(Tail(c), [key |-> key, fn |-> fn])
    ELSE Append(c, [key |-> key, fn |-> fn])

-----------------------------------------------------------------------------
(* The run of a compiled template, its includes included *)

\* What a call can see and change outside itself: the files and the cache
World(fs, c) == [fs |-> fs, cache |-> c]
NoFiles == World(<<>>, <<>>)

\* A compiled template: the synthesized body and what its wrapper closes over
TemplateFunction(src, opts, str) ==
    [source |-> src, options |-> opts, templateText |-> str]
NoFunction == TemplateFunction(<<>>, DefaultOptions, <<>>)

\* {...a, ...b}
RECURSIVE Spread(_, _)
Spread(a, b) ==
    IF b = <<>> THEN a
    ELSE Spread(IF Bound(a, Head(b).id)
                THEN [i \in 1..Len(a) |-> IF a[i].id = Head(b).id THEN Head(b) ELSE a[i]]
                ELSE Append(a, Head(b)),
                Tail(b))

\* The object that the second argument of include(...) evaluates to
IncludeData(y) == [i \in 1..Len(y.props) |-> Bind(y.props[i].id, Str(y.props[i].text))]

\* (mutant) the data of the including call win over the data given to include
includeLocalsDataWins(env, y) ==
    IF y.given THEN Spread(IncludeData(y), env) ELSE env

\* let d = {...data}; if (includeData) d = {...d, ...includeData}
includeLocals(env, y) ==
    IF y.given THEN Spread(env, IncludeData(y)) ELSE env

\* Throwing an error object
ThrowError(st, e) ==
    [st EXCEPT !.err = e.name, !.text = e.message, !.msg = e.detail, !.path = e.path]
Thrown(st) == [name |-> st.err, message |-> st.text, detail |-> st.msg, path |-> st.path]

\* handleCache(options) for any options and no template given: the function
\* or the error, and the cache it leaves.  No file starts with a byte order
\* mark.
handleCacheOf(opts, w) ==
    LET filename == opts.filename
        named == filename.set /\ filename.v # <<>>
    IN IF ~named
       THEN [ok |-> FALSE, fn |-> NoFunction, cache |-> w.cache,
             error |-> Err("Error", "", IF opts.cache THEN CACHE_REQUIRES_FILENAME
                                        ELSE NO_FILE_NAME)]
       ELSE IF opts.cache /\ Has(w.cache, filename.v)
            THEN [ok |-> TRUE, fn |-> cacheGet(w.cache, filename.v).fn,
                  cache |-> cacheGet(w.cache, filename.v).cache, error |-> NoError]
       ELSE IF ~existsSync(w.fs, filename.v)
            THEN [ok |-> FALSE, fn |-> NoFunction, cache |-> w.cache,
                  error |-> Err("Error", "", NO_SUCH_FILE)]
       ELSE CHOOSE h \in
              {IF ~c.ok
               THEN [ok |-> FALSE, fn |-> NoFunction, cache |-> w.cache, error |-> c.error]
               ELSE [ok |-> TRUE, error |-> NoError,
                     fn |-> TemplateFunction(c.source, opts,
                                             preprocess(w.fs[filename.v], opts)),
                     cache |-> IF opts.cache
                               THEN cacheSet(w.cache, filename.v,
                                             TemplateFunction(c.source, opts,
                                                 preprocess(w.fs[filename.v], opts)))
                               ELSE w.cache]
               : c \in {Compile(w.fs[filename.v], opts)}} : TRUE

\* (mutant) what compile() left is stored under the file name before its
\* failure is looked at
handleCacheCompiledStoresFirst(c, opts, str, w) ==
    [ok |-> c.ok, error |-> c.error,
     fn |-> IF c.ok THEN TemplateFunction(c.source, opts, preprocess(str, opts))
            ELSE NoFunction,
     cache |-> IF opts.cache
               THEN cacheSet(w.cache, opts.filename.v,
                             TemplateFunction(c.source, opts, preprocess(str, opts)))
               ELSE w.cache]

\* What handleCache returns once the template is compiled: the function,
\* stored under the file name when options.cache is set
handleCacheCompiled(c, opts, str, w) ==
    IF ~c.ok THEN [ok |-> FALSE, fn |-> NoFunction, cache |-> w.cache, error |-> c.error]
    ELSE [ok |-> TRUE, error |-> NoError,
          fn |-> TemplateFunction(c.source, opts, preprocess(str, opts)),
          cache |-> IF opts.cache
                    THEN cacheSet(w.cache, opts.filename.v,
                                  TemplateFunction(c.source, opts, preprocess(str, opts)))
                    ELSE w.cache]

\* (mutant) the template is compiled before the file name is asked for
handleCacheGivenCompilesFirst(opts, template, w) ==
    CHOOSE h \in
      {IF ~c.ok THEN handleCacheCompiled(c, opts, template, w)
       ELSE IF opts.cache /\ ~(opts.filename.set /\ opts.filename.v # <<>>)
       THEN [ok |-> FALSE, fn |-> NoFunction, cache |-> w.cache,
             error |-> Err("Error", "", CACHE_REQUIRES_FILENAME)]
       ELSE handleCacheCompiled(c, opts, template, w)
       : c \in {Compile(template, opts)}} : TRUE

\* handleCache(options, template) with the template given, as render() calls
\* it: with options.cache the file name is required, then the cache is
\* asked; the template is compiled when the cache does not answer
handleCacheGiven(opts, template, w) ==
    IF opts.cache /\ ~(opts.filename.set /\ opts.filename.v # <<>>)
    THEN [ok |-> FALSE, fn |-> NoFunction, cache |-> w.cache,
          error |-> Err("Error", "", CACHE_REQUIRES_FILENAME)]
    ELSE IF opts.cache /\ Has(w.cache, opts.filename.v)
    THEN [ok |-> TRUE, fn |-> cacheGet(w.cache, opts.filename.v).fn,
          cache |-> cacheGet(w.cache, opts.filename.v).cache, error |-> NoError]
    ELSE CHOOSE h \in {handleCacheCompiled(c, opts, template, w) :
                          c \in {Compile(template, opts)}} : TRUE

\* What getIncludePath leaves to includeFile: an error to throw or a file to
\* hand to handleCache
RejectedPath(g, w) ==
    [ok |-> FALSE, fn |-> NoFunction, cache |-> w.cache, error |-> Err("Error", "", g.msg)]

\* (mutant) an included file is read and compiled once and kept, whatever
\* options.cache says
includeFileAtKept(g, opts, w) ==
    IF g.threw THEN RejectedPath(g, w)
    ELSE handleCacheOf([opts EXCEPT !.filename = g.path, !.cache = TRUE], w)

\* includeFile after getIncludePath returned or threw g: opts.filename = g;
\* handleCache(opts)
includeFileAt(g, opts, w) ==
    IF g.threw THEN RejectedPath(g, w)
    ELSE handleCacheOf([opts EXCEPT !.filename = g.path], w)

\* includeFile(filePath, options)
includeFile(filePath, opts, w) ==
    includeFileAt(getIncludePath(filePath, opts, w.fs), opts, w)

OBJECT_PROMISE == <<"[", "o", "b", "j", "e", "c", "t", " ", "P", "r", "o", "m", "i", "s", "e", "]">>

EvalExpr(kind, x, env) ==
    IF kind = "string" THEN Str(x)
    ELSE IF kind = "number" THEN Num(x)
    ELSE IF kind = "null" THEN Null
    ELSE IF kind = "ident" THEN Lookup(env, x)
    ELSE IF kind = "promise" THEN Str(OBJECT_PROMISE)
    ELSE Undefined

\* What the tag of operation o does with the value of its expression
Emit(o, st, val) ==
    IF o.op = "esc" THEN [st EXCEPT !.out = append(@, Str(escapeFn(st.esc, val)))]
    ELSE IF o.op = "raw" THEN [st EXCEPT !.out = append(@, val)]
    ELSE st

\* What the tag of operation o does once the include it awaits has settled
\* as r
Included(o, st, r) ==
    IF r.ok THEN Emit(o, [st EXCEPT !.cache = r.cache], Str(r.output))
    ELSE ThrowError([st EXCEPT !.cache = r.cache], r.error)

\* The operation that runs after the one at lo
NextOp(ops, lo) == IF ops[lo].op = "open" THEN LoopEnd(ops, lo) + 1 ELSE lo + 1

\* var __output = ""; var __line = 1: a fresh accumulator per call, and the
\* include closure of the call
NewFrame(fn, env, w) ==
    [out |-> <<>>, line |-> 1, err |-> "", text |-> "", msg |-> <<>>, path |-> Unset,
     esc |-> fn.options.escape, data |-> env, opts |-> fn.options,
     fs |-> w.fs, cache |-> w.cache]

RECURSIVE ExecOps(_, _, _, _, _)
RECURSIVE ExecOp(_, _, _, _)
RECURSIVE ExecLoop(_, _, _, _, _, _, _)
RECURSIVE include(_, _, _)
RECURSIVE RunBody(_, _, _)
RECURSIVE returnedFn(_, _, _)

\* One operation of the program, a loop as a whole
ExecOp(ops, lo, env, st) ==
    LET o == ops[lo]
    IN IF o.op = "line" THEN [st EXCEPT !.line = o.n]
       ELSE IF o.op = "lit" THEN [st EXCEPT !.out = @ \o o.x]
       ELSE IF o.op = "open"
            THEN IF ~Bound(env, o.x)
                 THEN Throw(st, "ReferenceError", o.x \o NOT_DEFINED)
                 ELSE IF Lookup(env, o.x).t # "list"
                 THEN Throw(st, "TypeError", o.x \o NOT_A_FUNCTION)
                 ELSE ExecLoop(ops, lo + 1, LoopEnd(ops, lo) - 1, env, o.y,
                               Lookup(env, o.x).l, st)
       ELSE IF o.op = "throw" THEN Throw(st, "Error", o.x)
       ELSE IF o.kind = "ident" /\ ~Bound(env, o.x)
            THEN Throw(st, "ReferenceError", o.x \o NOT_DEFINED)
       ELSE IF o.kind = "include"
            THEN CHOOSE s2 \in {Included(o, st, r) : r \in {include(o.x, o.y, st)}} : TRUE
       ELSE Emit(o, st, EvalExpr(o.kind, o.x, env))

ExecOps(ops, lo, hi, env, st) ==
    IF lo > hi \/ st.err # "" THEN st
    ELSE CHOOSE s3 \in {ExecOps(ops, next, hi, env, s2) :
                          s2 \in {ExecOp(ops, lo, env, st)},
                          next \in {NextOp(ops, lo)}} : TRUE

ExecLoop(ops, lo, hi, env, name, items, st) ==
    IF items = <<>> \/ st.err # "" THEN st
    ELSE CHOOSE s3 \in {ExecLoop(ops, lo, hi, env, name, Tail(items), s2) :
                          s2 \in {ExecOps(ops, lo, hi,
                                          Append(env, Bind(name, Head(items))), st)}} : TRUE

\* include(filePath, includeData) of the call whose frame is st: what it
\* resolves to or rejects with
include(filePath, y, st) ==
    CHOOSE r \in
      {IF f.ok THEN returnedFn(f.fn, includeLocals(st.data, y), World(st.fs, f.cache))
       ELSE [ok |-> FALSE, output |-> <<>>, error |-> f.error, cache |-> f.cache]
       : f \in {includeFile(filePath, st.opts, World(st.fs, st.cache))}} : TRUE

\* The body of fn(data ?? {}, escapeFn, include, rethrow)
RunBody(fn, env, w) ==
    CHOOSE s2 \in {ExecOps(ops, 1, Len(ops), env, NewFrame(fn, env, w)) :
                     ops \in {ParseProgram(fn.source)}} : TRUE

\* What the wrapper makes of the frame the body ends in: with compileDebug
\* the body runs inside try { ... } catch (error) { rethrow(...) }
Returned(fn, r) ==
    IF r.err = ""
    THEN [ok |-> TRUE, output |-> r.out, error |-> NoError, cache |-> r.cache]
    ELSE IF fn.options.compileDebug
         THEN [ok |-> FALSE, output |-> <<>>, cache |-> r.cache,
               error |-> rethrow(Thrown(r), sourceLines(fn.templateText),
                                 sanitizedFilename(fn.options), r.line,
                                 fn.options.escape)]
    ELSE [ok |-> FALSE, output |-> <<>>, cache |-> r.cache, error |-> Thrown(r)]

\* (mutant) the wrapper never decorates what the body throws
returnedFnUndecorated(fn, env, w) ==
    CHOOSE x \in {[ok |-> r.err = "", output |-> IF r.err = "" THEN r.out ELSE <<>>,
                   cache |-> r.cache,
                   error |-> IF r.err = "" THEN NoError ELSE Thrown(r)] :
                    r \in {RunBody(fn, env, w)}} : TRUE

\* returnedFn(data): what the call returns or throws
returnedFn(fn, env, w) ==
    CHOOSE x \in {Returned(fn, r) : r \in {RunBody(fn, env, w)}} : TRUE

\* The body run with the default options and no file
RunProgram(src, env) == RunBody(TemplateFunction(src, NoDebugOptions, <<>>), env, NoFiles)

\* The call of a function compiled from src with compileDebug off and the
\* default escape function
Invoke(src, env) == returnedFn(TemplateFunction(src, NoDebugOptions, <<>>), env, NoFiles)

\* render({template, data, options}) without the cache
Render(template, opts, env) ==
    LET c == Compile(template, opts)
    IN IF c.ok
       THEN returnedFn(TemplateFunction(c.source, opts, preprocess(template, opts)), env,
                       NoFiles)
       ELSE [ok |-> FALSE, output |-> <<>>, error |-> c.error]

-----------------------------------------------------------------------------
(* The template cache and handleCache *)

\* new LRUCache({ max: 20 })
File(n) == [name |-> "file", n |-> n]
Watched == File(0)

OLD_TEXT == <<"<", "p", ">", "O", "l", "d", "<", "/", "p", ">">>
NEW_TEXT == <<"<", "p", ">", "N", "e", "w", "<", "/", "p", ">">>
OTHER_TEXT == <<"<", "p", ">", "y", "a", "y", "<", "/", "p", ">">>

CacheOptions(f) == [cache |-> TRUE, filename |-> f]

\* fs.promises.readFile(filename)
readFile(fs, f) == IF f \in DOMAIN fs THEN fs[f] ELSE OTHER_TEXT

\* handleCache(options) with cache: true, a filename and no template: the
\* function it returns and the cache it leaves
handleCache(c, fs, opts) ==
    IF Has(c, opts.filename)
    THEN [hit |-> TRUE, fn |-> cacheGet(c, opts.filename).fn,
          cache |-> cacheGet(c, opts.filename).cache]
    ELSE LET fn == Compile(readFile(fs, opts.filename), DefaultOptions).source
         IN [hit |-> FALSE, fn |-> fn, cache |-> cacheSet(c, opts.filename, fn)]

NothingObserved == [stored |-> FALSE, fn |-> <<>>, rendered |-> FALSE, output |-> <<>>]

CacheInit ==
    /\ cache = <<>>
    /\ files = [f \in {Watched} |-> OLD_TEXT]
    /\ fresh = 0
    /\ observed = NothingObserved
    /\ calls = <<>>

-----------------------------------------------------------------------------
(* The templates, options and data the model compiles *)

\* A template as written: pieces of text and markers named by their role,
\* so that the same template can be spelled with any delimiters
Text(t) == [m |-> "text", t |-> t]
Marker(m) == [m |-> m, t |-> <<>>]

MarkerKinds == {"literalOpen", "literalClose", "escaped", "raw", "slurpOpen",
                "comment", "open", "close", "trimClose", "slurpClose"}
OpenKinds == {"open", "slurpOpen", "escaped", "raw", "comment"}
CloseKinds == {"close", "trimClose", "slurpClose"}

MarkerText(m, opts) ==
    LET o == <<opts.openDelimiter>>
        d == <<opts.delimiter>>
        c == <<opts.closeDelimiter>>
    IN CASE m = "literalOpen" -> o \o d \o d
         [] m = "literalClose" -> d \o d \o c
         [] m = "escaped" -> o \o d \o <<"=">>
         [] m = "raw" -> o \o d \o <<"-">>
         [] m = "slurpOpen" -> o \o d \o <<"_">>
         [] m = "comment" -> o \o d \o <<"#">>
         [] m = "open" -> o \o d
         [] m = "close" -> d \o c
         [] m = "trimClose" -> <<"-">> \o d \o c
         [] m = "slurpClose" -> <<"_">> \o d \o c

Spell(shape, opts) ==
    Cat([i \in 1..Len(shape) |->
            IF shape[i].m = "text" THEN shape[i].t ELSE MarkerText(shape[i].m, opts)])

\* All strings over the characters S of length at most n
Strings(S, n) == UNION {[1..k -> S] : k \in 0..n}

MaxLit == 3
MaxPieces == 3
MaxTail == 2

\* The option sets
CustomDelimiters ==
    [DefaultOptions EXCEPT !.openDelimiter = "[", !.closeDelimiter = "]", !.delimiter = "#"]
QuestionDelimiter == [DefaultOptions EXCEPT !.delimiter = "?"]
NoCompileDebug == NoDebugOptions
RmWhitespace == [DefaultOptions EXCEPT !.rmWhitespace = TRUE]

\* The data contexts
NoData == <<>>
NData == <<Bind(<<"n">>, Str(<<"<", "b", ">">>))>>
GeddyData == <<Bind(<<"n", "a", "m", "e">>, Str(<<"g", "e", "d", "d", "y">>))>>
BoldData == <<Bind(<<"n", "a", "m", "e">>, Str(<<"<", "b", ">", "x", "<", "/", "b", ">">>))>>
ItemsData == <<Bind(<<"i", "t", "e", "m", "s">>, List(<<Str(<<"x">>), Str(<<"y">>), Str(<<"z">>)>>))>>

Scenario(shape, opts, env) == [written |-> shape, options |-> opts, data |-> env]

\* Plain text, no marker: every string over these characters
LitChars == {"a", "n", LF, CR, SPACE, QUOTE, BACKSLASH}
PlainScenarios ==
    {Scenario(IF t = <<>> THEN <<>> ELSE <<Text(t)>>, DefaultOptions, env) :
        t \in Strings(LitChars, MaxLit), env \in {NoData, NData}}

\* Markers and short text in every order
Pieces == {Marker(m) : m \in MarkerKinds} \cup {Text(<<"n">>), Text(<<LF>>), Text(<<SPACE>>)}
PieceScenarios ==
    {Scenario(sh, opts, NData) :
        sh \in Strings(Pieces, MaxPieces),
        opts \in {DefaultOptions, CustomDelimiters}}

\* One well-formed tag and the text after it
TagContents == {<<SPACE>>, <<SPACE, "n", SPACE>>}
TailChars == {"a", LF, CR}
TagScenarios ==
    {Scenario(<<Marker(mo), Text(ct), Marker(mc)>> \o (IF t = <<>> THEN <<>> ELSE <<Text(t)>>),
              opts, NData) :
        mo \in OpenKinds, ct \in TagContents, mc \in CloseKinds,
        t \in Strings(TailChars, MaxTail),
        opts \in {DefaultOptions, QuestionDelimiter, NoCompileDebug, RmWhitespace}}

\* A trim tag with blanks around it
SlurpScenarios ==
    {Scenario(<<Text(<<"a", SPACE>>), Marker("slurpOpen"), Text(<<SPACE>>), Marker(mc),
                Text(<<SPACE, LF, "a">>)>>, opts, NData) :
        mc \in CloseKinds,
        opts \in {DefaultOptions, CustomDelimiters, QuestionDelimiter, RmWhitespace}}

\* The templates of the test suite and of the documentation
UL == <<"<", "u", "l", ">">>
LI == <<"<", "l", "i", ">">>
LI_END == <<"<", "/", "l", "i", ">">>
UL_END == <<"<", "/", "u", "l", ">">>
LOOP_HEAD == <<SPACE, "i", "t", "e", "m", "s", ".", "f", "o", "r", "E", "a", "c", "h", "(", "i", SPACE, "=", ">", SPACE, "{", SPACE>>
LOOP_TAIL == <<SPACE, "}", ")", SPACE>>
TrimTemplate ==
    << Text(UL), Marker("open"), Text(<<SPACE>>), Marker("trimClose"), Text(<<LF>>),
       Marker("open"), Text(LOOP_HEAD), Marker("trimClose"), Text(<<LF>> \o LI),
       Marker("escaped"), Text(<<SPACE, "i", SPACE>>), Marker("trimClose"),
       Text(LI_END \o <<LF>>),
       Marker("open"), Text(LOOP_TAIL), Marker("trimClose"), Text(<<LF>> \o UL_END) >>

P == <<"<", "p", ">">>
P_END == <<"<", "/", "p", ">">>
NAME_EXPR == <<SPACE, "n", "a", "m", "e", SPACE>>
EscapedTemplate == <<Text(P), Marker("escaped"), Text(NAME_EXPR), Marker("close"), Text(P_END)>>
RawTemplate == <<Text(P), Marker("raw"), Text(NAME_EXPR), Marker("close"), Text(P_END)>>
CommentTemplate == <<Marker("comment"), Text(<<SPACE, "a", "n", "y", "t", "h", "i", "n", "g", SPACE>>), Marker("close")>>
LiteralOpenTemplate == <<Marker("literalOpen")>>
LiteralTagTemplate == <<Marker("literalOpen"), Text(<<"-", SPACE, QUOTE, "f", "o", "o", QUOTE, SPACE>>), Marker("close")>>
OopsTemplate == <<Text(<<"<", "h", "1", ">", "o", "o", "p", "s", "<", "/", "h", "1", ">">>), Marker("raw"), Text(<<SPACE, "n", "a", "m", "e", SPACE, "-", ">">>)>>
YayTemplate == <<Text(<<"<", "p", ">", "y", "a", "y", "<", "/", "p", ">">>)>>

NamedScenarios ==
    {Scenario(TrimTemplate, opts, ItemsData) : opts \in {DefaultOptions, CustomDelimiters}}
    \cup {Scenario(sh, opts, GeddyData) :
            sh \in {EscapedTemplate, CommentTemplate, LiteralOpenTemplate,
                    LiteralTagTemplate, OopsTemplate},
            opts \in {DefaultOptions, CustomDelimiters, QuestionDelimiter}}
    \cup {Scenario(sh, opts, BoldData) :
            sh \in {EscapedTemplate, RawTemplate},
            opts \in {DefaultOptions, NoCompileDebug}}

\* Names for the two options the constructor validates
INJECTION == <<"x", ";", "y">>
ECHO == <<"e", "c", "h", "o">>
RESERVED == <<"i", "f">>
NameScenarios ==
    {Scenario(YayTemplate,
              [DefaultOptions EXCEPT !.outputFunctionName = ofn, !.localsName = ln],
              NoData) :
        ofn \in {Unset, Name(ECHO), Name(INJECTION), Name(<<>>), Name(RESERVED)},
        ln \in {DEFAULT_LOCALS_NAME, INJECTION, RESERVED, <<"n">>}}

Scenarios ==
    PlainScenarios \cup PieceScenarios \cup TagScenarios \cup SlurpScenarios
    \cup NamedScenarios \cup NameScenarios

-----------------------------------------------------------------------------
(* compile() and the render function, step by step *)

Init ==
    /\ \E sc \in Scenarios :
          /\ written = sc.written
          /\ options = sc.options
          /\ data = sc.data
          /\ text = Spell(sc.written, sc.options)
          /\ templateText = Spell(sc.written, sc.options)
    /\ regex = <<>>
    /\ matches = <<>>
    /\ index = 0
    /\ mode = NONE
    /\ truncate = FALSE
    /\ currentLine = 1
    /\ source = <<>>
    /\ pc = "start"
    /\ error = NoError
    /\ output = <<>>
    /\ CacheInit

Fail(err) ==
    /\ pc' = "failed"
    /\ error' = err

\* new Template(text, opts): the two name checks, then createRegex
Constructor ==
    /\ pc = "start"
    /\ IF constructorError(options) # NoError
       THEN Fail(constructorError(options)) /\ regex' = regex
       ELSE pc' = "constructed" /\ regex' = createRegex(options) /\ error' = error
    /\ UNCHANGED <<written, text, options, data, templateText, matches, index, mode,
                   truncate, currentLine, source, output>>
    /\ UNCHANGED cacheVars
    /\ UNCHANGED calls

\* generateSource up to its loop: the passes over the text, then the tokens
GenerateSourceBegin ==
    /\ pc = "constructed"
    /\ source = <<>>
    /\ templateText' = preprocess(templateText, options)
    /\ matches' = parseTemplateText(regex, templateText')
    /\ index' = 1
    /\ pc' = "scanning"
    /\ UNCHANGED <<written, text, options, data, regex, mode, truncate, currentLine,
                   source, error, output>>
    /\ UNCHANGED cacheVars
    /\ UNCHANGED calls

ScanState == [mode |-> mode, truncate |-> truncate, currentLine |-> currentLine,
              source |-> source]

\* One turn of generateSource's loop that passes the close-tag test
ScanToken ==
    /\ pc = "scanning"
    /\ index <= Len(matches)
    /\ ~closeTagMissing(matches, index, options)
    /\ LET st == scanLine(ScanState, matches[index], options)
       IN /\ mode' = st.mode
          /\ truncate' = st.truncate
          /\ currentLine' = st.currentLine
          /\ source' = st.source
    /\ index' = index + 1
    /\ UNCHANGED <<written, text, options, data, templateText, regex, matches, pc,
                   error, output>>
    /\ UNCHANGED cacheVars
    /\ UNCHANGED calls

\* (mutant) the throw leaves the scanner as it was before the first token
ScanFailBeforeScan ==
    /\ pc = "scanning"
    /\ index <= Len(matches)
    /\ closeTagMissing(matches, index, options)
    /\ Fail(Err("Error", NO_CLOSE_TAG, matches[index]))
    /\ mode' = NONE
    /\ truncate' = FALSE
    /\ currentLine' = 1
    /\ source' = <<>>
    /\ UNCHANGED <<written, text, options, data, templateText, regex, matches, index,
                   output>>
    /\ UNCHANGED cacheVars
    /\ UNCHANGED calls

\* One turn of the loop that fails it: the throw
ScanFail ==
    /\ pc = "scanning"
    /\ index <= Len(matches)
    /\ closeTagMissing(matches, index, options)
    /\ Fail(Err("Error", NO_CLOSE_TAG, matches[index]))
    /\ UNCHANGED <<written, text, options, data, templateText, regex, matches, index,
                   mode, truncate, currentLine, source, output>>
    /\ UNCHANGED cacheVars
    /\ UNCHANGED calls

\* The rest of compile(): esbuild.transform, the function constructor
Build ==
    /\ pc = "scanning"
    /\ index > Len(matches)
    /\ IF ~ProgramParses(source) THEN Fail(transformError)
       ELSE IF constructorRejects(options)
            THEN Fail(constructorSyntaxError(options))
       ELSE pc' = "compiled" /\ error' = error
    /\ UNCHANGED <<written, text, options, data, templateText, regex, matches, index,
                   mode, truncate, currentLine, source, output>>
    /\ UNCHANGED cacheVars
    /\ UNCHANGED calls

\* (mutant) the function closes over the text as compile() was given it
CallOriginalText ==
    /\ pc = "compiled"
    /\ \E r \in {returnedFn(TemplateFunction(source, options, text), data,
                           World(files, cache))} :
          /\ pc' = IF r.ok THEN "rendered" ELSE "threw"
          /\ output' = r.output
          /\ error' = r.error
    /\ UNCHANGED <<written, text, options, data, templateText, regex, matches, index,
                   mode, truncate, currentLine, source>>
    /\ UNCHANGED cacheVars
    /\ UNCHANGED calls

\* returnedFn(data)
Call ==
    /\ pc = "compiled"
    /\ \E r \in {returnedFn(TemplateFunction(source, options, templateText), data,
                           World(files, cache))} :
          /\ pc' = IF r.ok THEN "rendered" ELSE "threw"
          /\ output' = r.output
          /\ error' = r.error
    /\ UNCHANGED <<written, text, options, data, templateText, regex, matches, index,
                   mode, truncate, currentLine, source>>
    /\ UNCHANGED cacheVars
    /\ UNCHANGED calls

Next == Constructor \/ GenerateSourceBegin \/ ScanToken \/ ScanFail \/ Build \/ Call

Spec == Init /\ [][Next]_vars

-----------------------------------------------------------------------------
(* Renders whose embedded code fails or yields null, undefined or a number *)

MaxLines == 6

SCRIPT == <<"<", "s", "c", "r", "i", "p", "t", ">">>
ERROR_ETS == <<"e", "r", "r", "o", "r", ".", "e", "t", "s">>
ScriptFile == [DefaultOptions EXCEPT !.filename = Name(SCRIPT)]
ZoobyFile == [DefaultOptions EXCEPT !.filename = Name(SCRIPT), !.escape = "zooby"]
ErrorFile == [DefaultOptions EXCEPT !.filename = Name(ERROR_ETS)]
ErrorFileNoDebug == [NoDebugOptions EXCEPT !.filename = Name(ERROR_ETS)]

\* Tags whose code throws: a name the data does not hold, a throw statement
QDATA == <<SPACE, "q", "d", "a", "t", "a", SPACE>>
WHOOPS == <<"w", "h", "o", "o", "p", "s">>
THROW_WHOOPS == <<SPACE, "t", "h", "r", "o", "w", SPACE, "n", "e", "w", SPACE, "E", "r", "r", "o", "r", "(", QUOTE, "w", "h", "o", "o", "p", "s", QUOTE, ")", ";", SPACE>>
FailingTags ==
    { <<Marker("escaped"), Text(QDATA), Marker("close")>>,
      <<Marker("open"), Text(THROW_WHOOPS), Marker("close")>> }

\* n lines 'a', the k-th replaced by the tag
RECURSIVE LinesWithTag(_, _, _)
LinesWithTag(n, k, tag) ==
    IF n = 0 THEN <<>>
    ELSE LinesWithTag(n - 1, k, tag)
         \o (IF n = 1 THEN <<>> ELSE <<Text(<<LF>>)>>)
         \o (IF n = k THEN tag ELSE <<Text(<<"a">>)>>)

ErrorScenarios ==
    {Scenario(LinesWithTag(n, k, tag), opts, NoData) :
        n \in 1..MaxLines, k \in 1..MaxLines, tag \in FailingTags,
        opts \in {DefaultOptions, NoDebugOptions, ScriptFile, ZoobyFile, ErrorFile,
                  ErrorFileNoDebug}}

\* What stands before a failing tag: text, comments and code with line
\* breaks in them, line breaks that a trim-close marker removes
Prefixes ==
    { <<>>,
      <<Text(<<"a", LF>>)>>,
      <<Text(<<CR, LF>>)>>,
      <<Marker("comment"), Text(<<LF, "c", LF>>), Marker("close")>>,
      <<Marker("open"), Text(<<LF>>), Marker("close"), Text(<<LF>>)>>,
      <<Marker("open"), Text(<<SPACE>>), Marker("trimClose"), Text(<<LF>>)>>,
      <<Marker("open"), Text(<<SPACE>>), Marker("trimClose"), Text(<<LF, LF, "a">>)>>,
      <<Marker("literalOpen"), Text(<<LF>>), Marker("close")>> }

FailingContents == {QDATA, <<LF, LF>> \o QDATA, QDATA \o <<LF>>}

LineScenarios ==
    {Scenario(pre \o <<Marker(mo), Text(ct), Marker("close"), Text(<<LF, "a">>)>>, opts, NoData) :
        pre \in Prefixes, mo \in {"open", "escaped", "raw"}, ct \in FailingContents,
        opts \in {DefaultOptions, NoDebugOptions, RmWhitespace}}

\* Tags whose value is a number, null or undefined
ZERO == <<"0">>
NullData == <<Bind(<<"n">>, Null)>>
UndefinedData == <<Bind(<<"n">>, Undefined)>>
ZeroData == <<Bind(<<"n">>, Num(ZERO))>>
EmptyData == <<Bind(<<"n">>, Str(<<>>))>>
ValueContents == {<<SPACE, "0", SPACE>>, <<SPACE, "1", "0", SPACE>>,
                  <<SPACE>> \o NULL \o <<SPACE>>, <<SPACE>> \o UNDEFINED \o <<SPACE>>,
                  <<SPACE, "n", SPACE>>}
ValueScenarios ==
    {Scenario(<<Text(<<"a">>), Marker(mo), Text(ct), Marker("close"), Text(<<"b">>)>>, opts, env) :
        mo \in {"escaped", "raw"}, ct \in ValueContents,
        env \in {NoData, NData, NullData, UndefinedData, ZeroData, EmptyData},
        opts \in {DefaultOptions, NoDebugOptions, ZoobyFile}}

RunScenarios ==
    ErrorScenarios \cup LineScenarios \cup ValueScenarios
    \cup {Scenario(OopsTemplate, DefaultOptions, GeddyData)}

InitRun ==
    /\ \E sc \in RunScenarios :
          /\ written = sc.written
          /\ options = sc.options
          /\ data = sc.data
          /\ text = Spell(sc.written, sc.options)
          /\ templateText = Spell(sc.written, sc.options)
    /\ regex = <<>>
    /\ matches = <<>>
    /\ index = 0
    /\ mode = NONE
    /\ truncate = FALSE
    /\ currentLine = 1
    /\ source = <<>>
    /\ pc = "start"
    /\ error = NoError
    /\ output = <<>>
    /\ CacheInit

SpecRun == InitRun /\ [][Next]_vars

-----------------------------------------------------------------------------
(* The scanner alone, over every string of marker characters and every     *)
(* choice of the three delimiters                                           *)

MaxScanLen == 3

ScanChars == {"<", "%", ">", "-", "_", SPACE}
DelimChars == {"<", "%", ">", "-"}

ScanOptions ==
    {[DefaultOptions EXCEPT !.openDelimiter = o, !.closeDelimiter = c, !.delimiter = d] :
        o \in DelimChars, c \in DelimChars, d \in DelimChars}
    \cup {RmWhitespace}

InitScan ==
    /\ \E t \in Strings(ScanChars, MaxScanLen), opts \in ScanOptions :
          /\ written = (IF t = <<>> THEN <<>> ELSE <<Text(t)>>)
          /\ options = opts
          /\ text = t
          /\ templateText = t
    /\ data = NoData
    /\ regex = <<>>
    /\ matches = <<>>
    /\ index = 0
    /\ mode = NONE
    /\ truncate = FALSE
    /\ currentLine = 1
    /\ source = <<>>
    /\ pc = "start"
    /\ error = NoError
    /\ output = <<>>
    /\ CacheInit

NextScan == Constructor \/ GenerateSourceBegin

SpecScan == InitScan /\ [][NextScan]_vars

-----------------------------------------------------------------------------
(* Cached renders of files: renderFile with cache: true, one call at a    *)
(* time, while the watched file is rewritten and other files are rendered *)

MaxOthers == 21

InitCache ==
    /\ written = <<>>
    /\ text = <<>>
    /\ options = DefaultOptions
    /\ data = NoData
    /\ templateText = <<>>
    /\ regex = <<>>
    /\ matches = <<>>
    /\ index = 0
    /\ mode = NONE
    /\ truncate = FALSE
    /\ currentLine = 1
    /\ source = <<>>
    /\ pc = "start"
    /\ error = NoError
    /\ output = <<>>
    /\ CacheInit

\* fs.writeFileSync(watched, text)
WriteFile ==
    /\ \E t \in {OLD_TEXT, NEW_TEXT} :
          /\ t # files[Watched]
          /\ files' = [files EXCEPT ![Watched] = t]
    /\ UNCHANGED <<cache, fresh, observed>>
    /\ UNCHANGED compilerVars
    /\ UNCHANGED calls

\* renderFile({filePath: watched, options: {cache: true}})
RenderWatched ==
    /\ \E r \in {handleCache(cache, files, CacheOptions(Watched))} :
          /\ cache' = r.cache
          /\ observed' = [stored |-> TRUE,
                          fn |-> IF observed.stored THEN observed.fn ELSE r.fn,
                          rendered |-> TRUE,
                          output |-> Invoke(r.fn, NoData).output]
    /\ UNCHANGED <<files, fresh>>
    /\ UNCHANGED compilerVars
    /\ UNCHANGED calls

\* renderFile of a file not rendered before, cache: true
RenderOther ==
    /\ fresh < MaxOthers
    /\ fresh' = fresh + 1
    /\ \E r \in {handleCache(cache, files, CacheOptions(File(fresh + 1)))} :
          cache' = r.cache
    /\ UNCHANGED <<files, observed>>
    /\ UNCHANGED compilerVars
    /\ UNCHANGED calls

NextCache == WriteFile \/ RenderWatched \/ RenderOther

SpecCache == InitCache /\ [][NextCache]_vars

-----------------------------------------------------------------------------
(* Calls of one compiled function, step by step: each call runs its program *)
(* one operation at a time and gives way to the other calls while it awaits *)
(* an include.  Files change only while no call is under way.               *)

MaxCalls == 2

VIEWS_DIRECTORY == <<"/", "v">>
OTHER_DIRECTORY == <<"/", "u">>
MAIN_ETS == <<"/", "v", "/", "m", "a", "i", "n", ".", "e", "t", "s">>
PART_ETS == <<"/", "v", "/", "p", "a", "r", "t", ".", "e", "t", "s">>
NEST_ETS == <<"/", "v", "/", "n", "e", "s", "t", ".", "e", "t", "s">>
SEEN_ETS == <<"/", "u", "/", "s", "e", "e", "n", ".", "e", "t", "s">>

PART_TEXT == <<"(", "<", "%", "=", " ", "n", " ", "%", ">", ")">>
NEST_TEXT == <<"<", "<", "%", "-", " ", "a", "w", "a", "i", "t", " ", "i", "n", "c", "l", "u", "d", "e", "(", QUOTE, "p", "a", "r", "t", QUOTE, ")", " ", "%", ">", ">">>
SEEN_TEXT == <<"<", "%", "=", " ", "n", " ", "%", ">", ".">>

INCLUDE_PART == <<"<", "%", "-", " ", "a", "w", "a", "i", "t", " ", "i", "n", "c", "l", "u", "d", "e", "(", QUOTE, "p", "a", "r", "t", QUOTE, ")", " ", "%", ">">>
INCLUDE_PART_AS == <<"<", "%", "-", " ", "a", "w", "a", "i", "t", " ", "i", "n", "c", "l", "u", "d", "e", "(", QUOTE, "p", "a", "r", "t", QUOTE, ",", " ", "{", "n", ":", " ", QUOTE, "&", QUOTE, "}", ")", " ", "%", ">">>
INCLUDE_NEST == <<"<", "%", "-", " ", "a", "w", "a", "i", "t", " ", "i", "n", "c", "l", "u", "d", "e", "(", QUOTE, "n", "e", "s", "t", QUOTE, ")", " ", "%", ">">>
INCLUDE_SEEN == <<"<", "%", "-", " ", "a", "w", "a", "i", "t", " ", "i", "n", "c", "l", "u", "d", "e", "(", QUOTE, "s", "e", "e", "n", QUOTE, ")", " ", "%", ">">>
INCLUDE_MISSING == <<"<", "%", "-", " ", "a", "w", "a", "i", "t", " ", "i", "n", "c", "l", "u", "d", "e", "(", QUOTE, "n", "o", "<", QUOTE, ")", " ", "%", ">">>
INCLUDE_WATCHED == <<"<", "%", "-", " ", "a", "w", "a", "i", "t", " ", "i", "n", "c", "l", "u", "d", "e", "(", QUOTE, "f", "i", "l", "e", QUOTE, ")", " ", "%", ">">>
SHOW_N == <<"<", "%", "=", " ", "n", " ", "%", ">">>
MISSING == <<"n", "o", "<">>
ESCAPED_MISSING == <<"n", "o", "&", "l", "t", ";">>
WATCHED_ETS == <<"/", "v", "/", "f", "i", "l", "e", ".", "e", "t", "s">>

IncludedFiles ==
    [f \in {PART_ETS, NEST_ETS, SEEN_ETS, WATCHED_ETS} |->
        IF f = PART_ETS THEN PART_TEXT
        ELSE IF f = NEST_ETS THEN NEST_TEXT
        ELSE IF f = SEEN_ETS THEN SEEN_TEXT
        ELSE OLD_TEXT]

InMain == [DefaultOptions EXCEPT !.filename = Name(MAIN_ETS)]
InMainNoDebug == [NoDebugOptions EXCEPT !.filename = Name(MAIN_ETS)]
WithViews(opts, dirs) == [opts EXCEPT !.views = [set |-> TRUE, v |-> dirs]]

CallScenario(str, opts) == [text |-> str, options |-> opts]

\* Templates that include a file beside them, with and without data of the
\* include's own, a file that includes another, and a file of a views
\* directory
IncludingScenarios ==
    {CallScenario(<<"a">> \o INCLUDE_PART \o <<"c">> \o SHOW_N, InMainNoDebug),
     CallScenario(INCLUDE_PART_AS \o SHOW_N, InMainNoDebug),
     CallScenario(INCLUDE_NEST, InMainNoDebug),
     CallScenario(INCLUDE_SEEN, WithViews(InMainNoDebug, <<OTHER_DIRECTORY>>)),
     CallScenario(INCLUDE_SEEN, WithViews(NoDebugOptions, <<OTHER_DIRECTORY>>))}

\* Templates that include a file that is nowhere
MissingScenarios ==
    {CallScenario(<<"a">> \o INCLUDE_MISSING, opts) :
        opts \in {NoDebugOptions, InMainNoDebug, InMain,
                  WithViews(InMainNoDebug, <<OTHER_DIRECTORY>>),
                  WithViews(InMainNoDebug, <<>>),
                  WithViews(NoDebugOptions, <<OTHER_DIRECTORY, VIEWS_DIRECTORY>>)}}

\* The template whose included file is rewritten between calls
WatchingScenarios ==
    {CallScenario(<<"[">> \o INCLUDE_WATCHED \o <<"]">>, opts) : opts \in {InMain, InMainNoDebug}}

CallScenarios == IncludingScenarios \cup MissingScenarios \cup WatchingScenarios

N == <<"n">>
CallData == {<<Bind(N, Str(<<"1">>))>>, <<Bind(N, Str(<<"2">>))>>}

\* The state after compile(text, options) returned the function
InitCalls ==
    /\ \E sc \in CallScenarios :
          /\ text = sc.text
          /\ options = sc.options
          /\ templateText = preprocess(sc.text, sc.options)
          /\ source = Compile(sc.text, sc.options).source
    /\ written = <<>>
    /\ data = NoData
    /\ regex = createRegex(options)
    /\ matches = parseTemplateText(createRegex(options), templateText)
    /\ index = Len(matches) + 1
    /\ mode = NONE
    /\ truncate = FALSE
    /\ currentLine = 1
    /\ pc = "compiled"
    /\ error = NoError
    /\ output = <<>>
    /\ cache = <<>>
    /\ files = IncludedFiles
    /\ fresh = 0
    /\ observed = NothingObserved
    /\ calls = <<>>

\* The function that compile() returned
Compiled == TemplateFunction(source, options, templateText)
Program == ParseProgram(source)

NotAwaiting == [path |-> NotFound, locals |-> <<>>]

\* The frame of a call: pos is the operation that runs next, st the locals
\* of the function body, awaited what the include under way was called with,
\* began the files as they were when the call began
Frame(env, fs) ==
    [data |-> env, pos |-> 1, status |-> "running", awaited |-> NotAwaiting,
     st |-> NewFrame(Compiled, env, NoFiles), began |-> fs,
     output |-> <<>>, error |-> NoError]

Ended(f) == f.status \in {"returned", "threw"}

\* The locals of the body where it can see the files and the cache
InWorld(st) == [st EXCEPT !.fs = files, !.cache = cache]
Apart(st) == [st EXCEPT !.fs = <<>>, !.cache = <<>>]

\* (mutant) one accumulator for all the calls of the function
StoreSharedOutput(cs, i, f) ==
    [j \in 1..Len(cs) |-> IF j = i THEN f ELSE [cs[j] EXCEPT !.st.out = f.st.out]]

\* The calls after call i took a step that left its frame as f
Store(cs, i, f) == [cs EXCEPT ![i] = f]

\* The frame after an operation left the body's locals as st2
Stepped(f, st2) ==
    IF st2.err = "" THEN [f EXCEPT !.st = Apart(st2), !.pos = NextOp(Program, f.pos),
                                   !.awaited = NotAwaiting, !.status = "running"]
    ELSE [f EXCEPT !.st = Apart(st2), !.awaited = NotAwaiting, !.status = "threw",
                   !.error = Returned(Compiled, st2).error]

\* (mutant) the body goes on without awaiting the include it called
SuspendedNot(f, p) == [f EXCEPT !.pos = NextOp(Program, f.pos)]

\* The frame of a body that awaits the include it called
Suspended(f, p) == [f EXCEPT !.status = "awaiting", !.awaited = p]

\* returnedFn(data) is called
CallBegin ==
    /\ pc = "compiled"
    /\ Len(calls) < MaxCalls
    /\ \E d \in CallData : calls' = Append(calls, Frame(d, files))
    /\ UNCHANGED <<compilerVars, cacheVars>>

\* A call runs the operation it stands at, which awaits nothing
CallStep ==
    /\ \E i \in 1..Len(calls) :
          /\ calls[i].status = "running"
          /\ calls[i].pos <= Len(Program)
          /\ Program[calls[i].pos].kind # "include"
          /\ \E st2 \in {ExecOp(Program, calls[i].pos, calls[i].data, InWorld(calls[i].st))} :
                /\ calls' = Store(calls, i, Stepped(calls[i], st2))
                /\ cache' = st2.cache
    /\ UNCHANGED <<compilerVars, files, fresh, observed>>

\* A call reaches "await include(...)": include makes the data of the
\* included template, includeFile resolves the path, and the body waits
IncludeBegin ==
    /\ \E i \in 1..Len(calls) :
          /\ calls[i].status = "running"
          /\ calls[i].pos <= Len(Program)
          /\ Program[calls[i].pos].kind = "include"
          /\ \E p \in {[path |-> getIncludePath(Program[calls[i].pos].x, options, files),
                        locals |-> includeLocals(calls[i].st.data,
                                                 Program[calls[i].pos].y)]} :
                calls' = Store(calls, i, Suspended(calls[i], p))
    /\ UNCHANGED <<compilerVars, cacheVars>>

\* What the include called with p settles as
includeSettled(p, opts, w) ==
    CHOOSE r \in
      {IF f.ok THEN returnedFn(f.fn, p.locals, World(w.fs, f.cache))
       ELSE [ok |-> FALSE, output |-> <<>>, error |-> f.error, cache |-> f.cache]
       : f \in {includeFileAt(p.path, opts, w)}} : TRUE

\* The include a call awaits settles: the file is read, compiled and run,
\* and the body goes on with what it returned or threw
IncludeSettle ==
    /\ \E i \in 1..Len(calls) :
          /\ calls[i].status = "awaiting"
          /\ \E r \in {includeSettled(calls[i].awaited, options, World(files, cache))} :
                /\ calls' = Store(calls, i,
                                  Stepped(calls[i], Included(Program[calls[i].pos],
                                                             calls[i].st, r)))
                /\ cache' = r.cache
    /\ UNCHANGED <<compilerVars, files, fresh, observed>>

\* The body of a call ran to its end: return __output
CallReturn ==
    /\ \E i \in 1..Len(calls) :
          /\ calls[i].status = "running"
          /\ calls[i].pos > Len(Program)
          /\ calls' = Store(calls, i, [calls[i] EXCEPT !.status = "returned",
                                                     !.output = calls[i].st.out])
    /\ UNCHANGED <<compilerVars, cacheVars>>

\* The watched file is rewritten between two calls
RewriteIncluded ==
    /\ calls # <<>>
    /\ \A i \in 1..Len(calls) : Ended(calls[i])
    /\ \E t \in {OLD_TEXT, NEW_TEXT} :
          /\ files[WATCHED_ETS] # t
          /\ files' = [files EXCEPT ![WATCHED_ETS] = t]
    /\ UNCHANGED <<compilerVars, cache, fresh, observed, calls>>

NextCalls ==
    CallBegin \/ CallStep \/ IncludeBegin \/ IncludeSettle \/ CallReturn \/ RewriteIncluded

SpecCalls == InitCalls /\ [][NextCalls]_vars

-----------------------------------------------------------------------------
(* Includes by relative path: which file an include() takes, over the files *)
(* that exist, the views directories and the file that is rendering         *)

THIRD_DIRECTORY == <<"/", "t">>
ABSENT_DIRECTORY == <<"/", "m">>
X == <<"x">>
X_ETS == <<"x", ".", "e", "t", "s">>
Y == <<"y">>
INCLUDE_X == <<"<", "%", "-", " ", "a", "w", "a", "i", "t", " ", "i", "n", "c", "l", "u", "d", "e", "(", QUOTE, "x", QUOTE, ")", " ", "%", ">">>
INCLUDE_X_ETS == <<"<", "%", "-", " ", "a", "w", "a", "i", "t", " ", "i", "n", "c", "l", "u", "d", "e", "(", QUOTE, "x", ".", "e", "t", "s", QUOTE, ")", " ", "%", ">">>
INCLUDE_Y == <<"<", "%", "-", " ", "a", "w", "a", "i", "t", " ", "i", "n", "c", "l", "u", "d", "e", "(", QUOTE, "y", QUOTE, ")", " ", "%", ">">>

InDirectory(dir, name) == dir \o <<"/">> \o name

\* The files named x that may exist: beside the main file (with and without
\* the extension) and in two other directories, where x includes y
XFiles ==
    {InDirectory(VIEWS_DIRECTORY, X_ETS), InDirectory(VIEWS_DIRECTORY, X),
     InDirectory(OTHER_DIRECTORY, X_ETS), InDirectory(THIRD_DIRECTORY, X_ETS)}

\* The files named y, which always exist
YFiles == {InDirectory(VIEWS_DIRECTORY, <<"y", ".", "e", "t", "s">>),
           InDirectory(OTHER_DIRECTORY, <<"y", ".", "e", "t", "s">>)}

\* Each file says where it is
ResolveText(f) ==
    IF f = InDirectory(VIEWS_DIRECTORY, X_ETS) THEN <<"v">>
    ELSE IF f = InDirectory(VIEWS_DIRECTORY, X) THEN <<"n">>
    ELSE IF f = InDirectory(OTHER_DIRECTORY, X_ETS) THEN <<"u">> \o INCLUDE_Y
    ELSE IF f = InDirectory(THIRD_DIRECTORY, X_ETS) THEN <<"t">> \o INCLUDE_Y
    ELSE IF f = InDirectory(VIEWS_DIRECTORY, <<"y", ".", "e", "t", "s">>) THEN <<"V">>
    ELSE <<"U">>

ResolveFiles == {[f \in S \cup YFiles |-> ResolveText(f)] : S \in SUBSET XFiles}

ResolveViews ==
    {Unset,
     [set |-> TRUE, v |-> <<OTHER_DIRECTORY>>],
     [set |-> TRUE, v |-> <<OTHER_DIRECTORY, THIRD_DIRECTORY>>],
     [set |-> TRUE, v |-> <<THIRD_DIRECTORY, OTHER_DIRECTORY>>],
     [set |-> TRUE, v |-> <<ABSENT_DIRECTORY, THIRD_DIRECTORY, VIEWS_DIRECTORY>>]}

ResolveOptions ==
    {[opts EXCEPT !.views = vs] : opts \in {NoDebugOptions, InMainNoDebug}, vs \in ResolveViews}

\* The state after compile(text, options) returned the function
InitResolve ==
    /\ \E str \in {INCLUDE_X, INCLUDE_X_ETS}, opts \in ResolveOptions :
          /\ text = str
          /\ options = opts
          /\ templateText = preprocess(str, opts)
          /\ source = Compile(str, opts).source
    /\ files \in ResolveFiles
    /\ written = <<>>
    /\ data = NoData
    /\ regex = createRegex(options)
    /\ matches = parseTemplateText(createRegex(options), templateText)
    /\ index = Len(matches) + 1
    /\ mode = NONE
    /\ truncate = FALSE
    /\ currentLine = 1
    /\ pc = "compiled"
    /\ error = NoError
    /\ output = <<>>
    /\ cache = <<>>
    /\ fresh = 0
    /\ observed = NothingObserved
    /\ calls = <<>>

NextResolve == Call

SpecResolve == InitResolve /\ [][NextResolve]_vars

-----------------------------------------------------------------------------
(* render() of template strings, with and without the cache option and a   *)
(* file name, one call after the other                                      *)

UNCLOSED == <<"<", "%">>

RenderTemplates == {<<"a">>, <<"b">>, SHOW_N, UNCLOSED}

RenderOptions ==
    {[NoDebugOptions EXCEPT !.cache = c, !.filename = f] :
        c \in BOOLEAN, f \in {Unset, Name(<<>>), Name(MAIN_ETS), Name(PART_ETS)}}

InitRender ==
    /\ written = <<>>
    /\ text = <<>>
    /\ options = DefaultOptions
    /\ data = NoData
    /\ templateText = <<>>
    /\ regex = <<>>
    /\ matches = <<>>
    /\ index = 0
    /\ mode = NONE
    /\ truncate = FALSE
    /\ currentLine = 1
    /\ source = <<>>
    /\ pc = "start"
    /\ error = NoError
    /\ output = <<>>
    /\ CacheInit

\* What render() makes of what handleCache returned or threw
Rendered(h, env, fs) ==
    IF ~h.ok THEN [ok |-> FALSE, output |-> <<>>, error |-> h.error, cache |-> h.cache]
    ELSE returnedFn(h.fn, env, World(fs, h.cache))

\* render({template, data, options})
RenderTemplate ==
    /\ \E str \in RenderTemplates, opts \in RenderOptions :
          /\ text' = str
          /\ options' = opts
          /\ \E r \in {Rendered(h, data, files) :
                          h \in {handleCacheGiven(opts, str, World(files, cache))}} :
                /\ pc' = IF r.ok THEN "rendered" ELSE "threw"
                /\ output' = r.output
                /\ error' = r.error
                /\ cache' = r.cache
    /\ UNCHANGED <<written, data, templateText, regex, matches, index, mode, truncate,
                   currentLine, source>>
    /\ UNCHANGED <<files, fresh, observed>>
    /\ UNCHANGED calls

NextRender == RenderTemplate

SpecRender == InitRender /\ [][NextRender]_vars

-----------------------------------------------------------------------------
(* Tags whose content has line comments and line breaks, scanned token by  *)
(* token                                                                    *)

MaxContent == 4

ContentChars == {"/", LF, "x"}

\* What stands before the content: nothing, or one of the opening markers
ContentOpenings ==
    {<<>>, <<"<", "%">>, <<"<", "%", "_">>, <<"<", "%", "=">>, <<"<", "%", "-">>,
     <<"<", "%", "#">>, <<"<", "%", "%">>}

InitComment ==
    /\ \E o \in ContentOpenings, t \in Strings(ContentChars, MaxContent),
          opts \in {DefaultOptions, NoDebugOptions} :
          /\ written = <<Text(o \o t \o <<"%", ">", "z">>)>>
          /\ options = opts
          /\ text = o \o t \o <<"%", ">", "z">>
          /\ templateText = o \o t \o <<"%", ">", "z">>
    /\ data = NoData
    /\ regex = <<>>
    /\ matches = <<>>
    /\ index = 0
    /\ mode = NONE
    /\ truncate = FALSE
    /\ currentLine = 1
    /\ source = <<>>
    /\ pc = "start"
    /\ error = NoError
    /\ output = <<>>
    /\ CacheInit

NextComment == Constructor \/ GenerateSourceBegin \/ ScanToken

SpecComment == InitComment /\ [][NextComment]_vars

-----------------------------------------------------------------------------
(* Literal output with quotes, backslashes and line breaks in the text and *)
(* in the delimiters, scanned token by token                                *)

MaxEscaped == 3

EscapedChars == {"<", "%", ">", QUOTE, BACKSLASH, LF}

\* The default delimiters, a double quote or a backslash as the delimiter,
\* and a double quote as the open delimiter
EscapedOptions ==
    {DefaultOptions,
     [DefaultOptions EXCEPT !.delimiter = QUOTE],
     [DefaultOptions EXCEPT !.delimiter = BACKSLASH],
     [DefaultOptions EXCEPT !.openDelimiter = QUOTE]}

InitEscaped ==
    /\ \E t \in Strings(EscapedChars, MaxEscaped), opts \in EscapedOptions :
          /\ written = (IF t = <<>> THEN <<>> ELSE <<Text(t)>>)
          /\ options = opts
          /\ text = t
          /\ templateText = t
    /\ data = NoData
    /\ regex = <<>>
    /\ matches = <<>>
    /\ index = 0
    /\ mode = NONE
    /\ truncate = FALSE
    /\ currentLine = 1
    /\ source = <<>>
    /\ pc = "start"
    /\ error = NoError
    /\ output = <<>>
    /\ CacheInit

NextEscaped == Constructor \/ GenerateSourceBegin \/ ScanToken \/ ScanFail

SpecEscaped == InitEscaped /\ [][NextEscaped]_vars

-----------------------------------------------------------------------------
(* Templates whose synthesized program is not valid: code that does not    *)
(* parse, and a localsName that is a reserved word                          *)

UNBALANCED == <<"<", "%", SPACE, "}", ")", SPACE, "%", ">">>
NO_EXPRESSION == <<"a", "<", "%", "=", SPACE, "(", SPACE, "%", ">">>

BuildTemplates == {<<"a">>, SHOW_N, UNBALANCED, NO_EXPRESSION}

BuildOptions ==
    {[DefaultOptions EXCEPT !.localsName = ln, !.filename = f, !.compileDebug = cd] :
        ln \in {DEFAULT_LOCALS_NAME, RESERVED}, f \in {Unset, Name(<<>>), Name(MAIN_ETS)},
        cd \in BOOLEAN}

InitBuild ==
    /\ \E t \in BuildTemplates, opts \in BuildOptions :
          /\ written = <<Text(t)>>
          /\ options = opts
          /\ text = t
          /\ templateText = t
    /\ data = NoData
    /\ regex = <<>>
    /\ matches = <<>>
    /\ index = 0
    /\ mode = NONE
    /\ truncate = FALSE
    /\ currentLine = 1
    /\ source = <<>>
    /\ pc = "start"
    /\ error = NoError
    /\ output = <<>>
    /\ CacheInit

NextBuild == Constructor \/ GenerateSourceBegin \/ ScanToken \/ Build \/ Call

SpecBuild == InitBuild /\ [][NextBuild]_vars

-----------------------------------------------------------------------------
(* render() and renderFile() calls with the cache, step by step: a call    *)
(* gives way to the other calls while it awaits the file, the compiler and *)
(* handleCache itself.  The files stay as they are.                        *)

MaxHandles == 2

ABSENT_ETS == <<"/", "v", "/", "n", "o", ".", "e", "t", "s">>
INVALID_NAME == <<"1">>
OTHER_DELIMITER == "?"

HandleTemplates == {<<"a">>, SHOW_N, UNCLOSED, NO_EXPRESSION}

CachedMain == [DefaultOptions EXCEPT !.cache = TRUE, !.filename = Name(MAIN_ETS)]

\* What a call is made with: the options, and the template when one is given
HandleCall(opts, given, str) == [options |-> opts, given |-> given, template |-> str]

HandleCalls ==
    {HandleCall(CachedMain, FALSE, <<>>),
     HandleCall([CachedMain EXCEPT !.compileDebug = FALSE], FALSE, <<>>),
     HandleCall([CachedMain EXCEPT !.delimiter = OTHER_DELIMITER], TRUE, SHOW_N),
     HandleCall(CachedMain, TRUE, <<"b">>),
     HandleCall(CachedMain, TRUE, UNCLOSED),
     HandleCall([CachedMain EXCEPT !.localsName = RESERVED], FALSE, <<>>),
     HandleCall([CachedMain EXCEPT !.localsName = INVALID_NAME], FALSE, <<>>),
     HandleCall([CachedMain EXCEPT !.filename = Name(ABSENT_ETS)], FALSE, <<>>),
     HandleCall([CachedMain EXCEPT !.cache = FALSE], FALSE, <<>>)}

InitHandle ==
    /\ written = <<>>
    /\ text = <<>>
    /\ options = DefaultOptions
    /\ data = NoData
    /\ templateText = <<>>
    /\ regex = <<>>
    /\ matches = <<>>
    /\ index = 0
    /\ mode = NONE
    /\ truncate = FALSE
    /\ currentLine = 1
    /\ source = <<>>
    /\ pc = "start"
    /\ error = NoError
    /\ output = <<>>
    /\ cache = <<>>
    /\ \E t \in HandleTemplates : files = [f \in {MAIN_ETS} |-> t]
    /\ fresh = 0
    /\ observed = NothingObserved
    /\ calls = <<>>

\* The frame of a call of handleCache: template is its local variable, fn
\* what it returned, error what it threw
Handling(a, status) ==
    [args |-> a, template |-> a.template, status |-> status, fn |-> NoFunction,
     error |-> NoError, output |-> <<>>]

HandleThrew(f, e) == [f EXCEPT !.status = "threw", !.error = e]
HandleReturned(f, fn) == [f EXCEPT !.status = "returned", !.fn = fn]

Named(opts) == opts.filename.set /\ opts.filename.v # <<>>

\* (mutant) a cached function answers only the options it was compiled with
CacheAnswersSameOptions(a, c) ==
    /\ a.options.cache
    /\ Named(a.options)
    /\ Has(c, a.options.filename.v)
    /\ cacheGet(c, a.options.filename.v).fn.options = a.options

\* options.cache && cache.get(filename) !== undefined
CacheAnswers(a, c) ==
    a.options.cache /\ Named(a.options) /\ Has(c, a.options.filename.v)

\* handleCache up to its first await, or to its return when the cache
\* answers or the file name is missing
handleCacheBegin(a, c) ==
    IF ~Named(a.options) /\ (a.options.cache \/ ~a.given)
    THEN HandleThrew(Handling(a, "threw"),
                     Err("Error", "", IF a.options.cache THEN CACHE_REQUIRES_FILENAME
                                      ELSE NO_FILE_NAME))
    ELSE IF CacheAnswers(a, c)
    THEN HandleReturned(Handling(a, "returned"), cacheGet(c, a.options.filename.v).fn)
    ELSE IF ~a.given THEN Handling(a, "reading")
    ELSE Handling(a, "compiling")

\* A call of handleCache begins
HandleBegin ==
    /\ Len(calls) < MaxHandles
    /\ \E a \in HandleCalls :
          /\ calls' = Append(calls, handleCacheBegin(a, cache))
          /\ cache' = IF CacheAnswers(a, cache)
                      THEN cacheGet(cache, a.options.filename.v).cache ELSE cache
    /\ UNCHANGED <<compilerVars, files, fresh, observed>>

\* await fs.promises.readFile(filename, 'utf-8') settles
handleCacheRead(f, fs) ==
    IF existsSync(fs, f.args.options.filename.v)
    THEN [f EXCEPT !.status = "compiling", !.template = fs[f.args.options.filename.v]]
    ELSE HandleThrew(f, Err("Error", "", NO_SUCH_FILE))

HandleRead ==
    /\ \E i \in 1..Len(calls) :
          /\ calls[i].status = "reading"
          /\ calls' = Store(calls, i, handleCacheRead(calls[i], files))
    /\ UNCHANGED <<compilerVars, cacheVars>>

\* await compile(template, options) settles, and the function is stored
\* when options.cache is set
handleCacheEnd(f, h) ==
    IF h.ok THEN HandleReturned(f, h.fn) ELSE HandleThrew(f, h.error)

HandleCompile ==
    /\ \E i \in 1..Len(calls) :
          /\ calls[i].status = "compiling"
          /\ \E h \in {handleCacheCompiled(c, calls[i].args.options, calls[i].template,
                                           World(files, cache)) :
                          c \in {Compile(calls[i].template, calls[i].args.options)}} :
                /\ calls' = Store(calls, i, handleCacheEnd(calls[i], h))
                /\ cache' = h.cache
    /\ UNCHANGED <<compilerVars, files, fresh, observed>>

\* The caller of handleCache calls the function it got
HandleRendered(f, r) ==
    IF r.ok THEN [f EXCEPT !.status = "rendered", !.output = r.output]
    ELSE [f EXCEPT !.status = "failed", !.error = r.error]

HandleRender ==
    /\ \E i \in 1..Len(calls) :
          /\ calls[i].status = "returned"
          /\ \E r \in {returnedFn(calls[i].fn, data, World(files, cache))} :
                /\ calls' = Store(calls, i, HandleRendered(calls[i], r))
                /\ cache' = r.cache
    /\ UNCHANGED <<compilerVars, files, fresh, observed>>

NextHandle == HandleBegin \/ HandleRead \/ HandleCompile \/ HandleRender

SpecHandle == InitHandle /\ [][NextHandle]_vars

-----------------------------------------------------------------------------
(* compile() called again on the Template it was called on before          *)

MaxAgain == 3

AgainPieces ==
    {Text(<<"n">>), Marker("open"), Marker("escaped"), Marker("close"),
     Marker("literalOpen")}

AgainOptions == {DefaultOptions, NoDebugOptions, [DefaultOptions EXCEPT !.localsName = RESERVED]}

InitAgain ==
    /\ \E sh \in Strings(AgainPieces, MaxAgain), opts \in AgainOptions :
          /\ written = sh
          /\ options = opts
          /\ text = Spell(sh, opts)
          /\ templateText = Spell(sh, opts)
    /\ data = NoData
    /\ regex = <<>>
    /\ matches = <<>>
    /\ index = 0
    /\ mode = NONE
    /\ truncate = FALSE
    /\ currentLine = 1
    /\ source = <<>>
    /\ pc = "start"
    /\ error = NoError
    /\ output = <<>>
    /\ CacheInit

\* compile() got as far as this.source = <prologue, code, epilogue>: it
\* returned, or the function constructor threw
Wrapped == pc = "compiled" \/ (pc = "failed" /\ error.name = "SyntaxError")

\* !this.source
SourceEmpty == source = <<>> /\ ~Wrapped

\* (mutant) compile() scans the template whatever the buffer holds
CompileAgainScans ==
    /\ pc \in {"compiled", "failed"}
    /\ regex # <<>>
    /\ pc' = "constructed"
    /\ error' = NoError
    /\ source' = <<>>
    /\ UNCHANGED <<written, text, options, data, templateText, regex, matches, index,
                   mode, truncate, currentLine, output>>
    /\ UNCHANGED cacheVars
    /\ UNCHANGED calls

\* compile() on a Template whose compile() has returned or thrown: with the
\* buffer empty it goes into generateSource; otherwise the buffer, wrapped
\* by the earlier call or left half-written by it, goes to the function
\* constructor
CompileAgain ==
    /\ pc \in {"compiled", "failed"}
    /\ regex # <<>>
    /\ IF SourceEmpty THEN pc' = "constructed" /\ error' = NoError
       ELSE IF (~Wrapped /\ ~ProgramParses(source)) \/ constructorRejects(options)
       THEN pc' = "refailed" /\ error' = constructorSyntaxError(options)
       ELSE pc' = (IF Wrapped THEN "recompiled" ELSE "rebuilt") /\ error' = NoError
    /\ UNCHANGED <<written, text, options, data, templateText, regex, matches, index,
                   mode, truncate, currentLine, source, output>>
    /\ UNCHANGED cacheVars
    /\ UNCHANGED calls

NextAgain ==
    Constructor \/ GenerateSourceBegin \/ ScanToken \/ ScanFail \/ Build \/ CompileAgain

SpecAgain == InitAgain /\ [][NextAgain]_vars

-----------------------------------------------------------------------------
(* Renders of a template that includes a file whose code fails, directly   *)
(* and through another file                                                 *)

MaxAbove == 2

AWAIT_INCLUDE == <<"<", "%", "-", " ", "a", "w", "a", "i", "t", " ", "i", "n", "c", "l", "u", "d", "e", "(", QUOTE>>
AwaitInclude(name) == AWAIT_INCLUDE \o name \o <<QUOTE, ")", " ", "%", ">">>

FAILING == <<"f", "&">>
FAILING_ETS == <<"/", "v", "/", "f", "&", ".", "e", "t", "s">>
DEEP == <<"d", "e", "e", "p">>
DEEP_ETS == <<"/", "v", "/", "d", "e", "e", "p", ".", "e", "t", "s">>
AMP_ETS == <<"/", "v", "/", "m", "&", ".", "e", "t", "s">>
DEEP_TEXT == <<"b", LF>> \o AwaitInclude(FAILING)

\* n line breaks
RECURSIVE LineBreaks(_)
LineBreaks(n) == IF n = 0 THEN <<>> ELSE <<LF>> \o LineBreaks(n - 1)

\* The included file: its failing tag on the first or the second line
FailingTexts ==
    {Spell(LinesWithTag(2, k, tag), DefaultOptions) : k \in 1..2, tag \in FailingTags}

NestedFiles ==
    {[f \in {FAILING_ETS, DEEP_ETS} |-> IF f = DEEP_ETS THEN DEEP_TEXT ELSE t] :
        t \in FailingTexts}

NestedOptions ==
    {[DefaultOptions EXCEPT !.filename = f, !.compileDebug = cd, !.escape = e,
                            !.views = [set |-> TRUE, v |-> <<VIEWS_DIRECTORY>>]] :
        f \in {Unset, Name(MAIN_ETS), Name(AMP_ETS)}, cd \in BOOLEAN,
        e \in {"customEscape", "zooby"}}

NestedTexts ==
    {LineBreaks(n) \o AwaitInclude(name) : n \in 0..MaxAbove, name \in {FAILING, DEEP}}

\* The state after compile(text, options) returned the function
InitNested ==
    /\ \E str \in NestedTexts, opts \in NestedOptions :
          /\ text = str
          /\ options = opts
          /\ templateText = preprocess(str, opts)
          /\ source = Compile(str, opts).source
    /\ files \in NestedFiles
    /\ written = <<>>
    /\ data = NoData
    /\ regex = createRegex(options)
    /\ matches = parseTemplateText(createRegex(options), templateText)
    /\ index = Len(matches) + 1
    /\ mode = NONE
    /\ truncate = FALSE
    /\ currentLine = 1
    /\ pc = "compiled"
    /\ error = NoError
    /\ output = <<>>
    /\ cache = <<>>
    /\ fresh = 0
    /\ observed = NothingObserved
    /\ calls = <<>>

NextNested == Call

SpecNested == InitNested /\ [][NextNested]_vars

-----------------------------------------------------------------------------
(* Claims *)

IsMarker(tok, opts) == \E a \in 1..Len(createRegex(opts)) : tok = createRegex(opts)[a]

\* C1: the tokens parseTemplateText returns, concatenated in order, are the
\* pre-processed template text, and no token is empty, for every text and
\* every choice of the delimiters.
C1_TokensReconstructText ==
    pc = "scanning" =>
        /\ Cat(matches) = templateText
        /\ \A i \in 1..Len(matches) : matches[i] # <<>>

C1_Witness ==
    /\ pc = "scanning"
    /\ options.openDelimiter = "-"
    /\ options.delimiter = "<"
    /\ Len(matches) = 2
    /\ IsMarker(matches[2], options)
    /\ ~IsMarker(matches[1], options)

\* The text contains none of the ten default marker strings
NoMarkerIn(t) ==
    \A i \in 1..Len(t), a \in 1..Len(REGEX_STRING) : ~StartsWith(Drop(t, i), REGEX_STRING[a])

\* C2: a template that contains none of the ten marker strings, the empty
\* template included, compiles with default options and renders, with any
\* data, to the template text unchanged; the empty template has no tokens.
C2_PlainTextRendersUnchanged ==
    (options = DefaultOptions /\ NoMarkerIn(text)) =>
        /\ pc \notin {"failed", "threw"}
        /\ pc = "rendered" => output = text
        /\ (text = <<>> /\ pc \in {"scanning", "compiled", "rendered"}) => matches = <<>>

C2_Witness ==
    /\ pc = "rendered"
    /\ options = DefaultOptions
    /\ data = NData
    /\ text = <<BACKSLASH, "n", QUOTE>>
    /\ output = text

\* The close-tag rule in the claim's words: token i begins with open+delim,
\* not with open+delim+delim, and no close marker stands at i+2
C3_Unmatched(i) ==
    LET o == <<options.openDelimiter>>
        d == <<options.delimiter>>
        c == <<options.closeDelimiter>>
    IN /\ StartsWith(matches[i], o \o d)
       /\ ~StartsWith(matches[i], o \o d \o d)
       /\ ~(/\ i + 2 <= Len(matches)
            /\ matches[i + 2] \in {d \o c, <<"-">> \o d \o c, <<"_">> \o d \o c})

C3_FirstUnmatched == CHOOSE i \in 1..Len(matches) :
                        C3_Unmatched(i) /\ \A j \in 1..(i - 1) : ~C3_Unmatched(j)

\* C3: generateSource passes a token that begins with open+delim and not with
\* open+delim+delim only when one of the three close markers stands two
\* tokens later; otherwise compile fails with 'Could not find matching close
\* tag for "<marker>".' naming that token (the first such token).
C3_OpeningTagNeedsClose ==
    /\ (pc \in {"scanning", "compiled", "rendered", "threw"}) =>
          \A i \in 1..Len(matches) : i < index => ~C3_Unmatched(i)
    /\ (pc = "failed" /\ error.message = NO_CLOSE_TAG) =>
          /\ index = C3_FirstUnmatched
          /\ error.detail = matches[index]
    /\ (pc = "failed" /\ error.message # NO_CLOSE_TAG /\ matches # <<>>) =>
          \A i \in 1..Len(matches) : ~C3_Unmatched(i)

\* the opening marker is second to last and its close marker follows it directly
C3_Witness ==
    /\ pc = "failed"
    /\ error.message = NO_CLOSE_TAG
    /\ Len(matches) = 3
    /\ index = 2
    /\ error.detail = <<"[", "#", "=">>
    /\ matches[3] = <<"#", "]">>

\* The token scanned by the step from this state is a content token: none of
\* the ten cases of the switch
C4_ContentToken ==
    /\ pc = "scanning"
    /\ index <= Len(matches)
    /\ index' = index + 1
    /\ \A m \in MarkerKinds : matches[index] # MarkerText(m, options)

\* The statements a step appended, the line statement left out
C4_Appended ==
    LET new == SubSeq(source', Len(source) + 1, Len(source'))
    IN IF new # <<>> /\ new[Len(new)].k = "line" THEN SubSeq(new, 1, Len(new) - 1) ELSE new

C4_Content == matches[index]
C4_CodeTexts == {C4_Content, Append(C4_Content, LF)}
C4_LiteralTexts == {C4_Content, Drop(C4_Content, 2), Drop(C4_Content, 3)}

C4_Step ==
    C4_ContentToken =>
        /\ mode' = mode
        /\ SubSeq(source', 1, Len(source)) = source
        /\ mode = EVAL => \E t \in C4_CodeTexts : C4_Appended = <<Stmt("eval", t)>>
        /\ mode = ESCAPED =>
              \E t \in C4_CodeTexts : C4_Appended = <<Stmt("esc", stripSemi(t))>>
        /\ mode = RAW =>
              \E t \in C4_CodeTexts : C4_Appended = <<Stmt("raw", stripSemi(t))>>
        /\ mode = COMMENT => C4_Appended = <<>>
        /\ mode \in {NONE, LITERAL} =>
              \/ C4_Appended = <<>> /\ truncate
              \/ \E t \in C4_LiteralTexts :
                    /\ t # <<>>
                    /\ C4_Appended = <<Stmt("lit", escapeLiteral(t))>>
                    /\ StringLiteralValue(C4_Appended[1].s) = [ok |-> TRUE, v |-> t]

C4_Examples ==
    (pc \in {"rendered", "threw", "failed"} /\ options = DefaultOptions) =>
        /\ (written = EscapedTemplate /\ data = GeddyData) =>
              pc = "rendered" /\ output = P \o <<"g", "e", "d", "d", "y">> \o P_END
        /\ (written = EscapedTemplate /\ data = BoldData) =>
              pc = "rendered" /\ output = P \o <<"&", "l", "t", ";", "b", "&", "g", "t", ";", "x", "&", "l", "t", ";", "/", "b", "&", "g", "t", ";">> \o P_END
        /\ (written = RawTemplate /\ data = BoldData) =>
              pc = "rendered" /\ output = P \o <<"<", "b", ">", "x", "<", "/", "b", ">">> \o P_END
        /\ written = CommentTemplate => pc = "rendered" /\ output = <<>>

\* C4: the statement scanLine appends for a content token is decided by the
\* mode: EVAL the content as a statement, ESCAPED __append(escapeFn(content)),
\* RAW __append(content), COMMENT nothing, NONE and LITERAL a string-literal
\* append of the content; '<p><%= name %></p>' renders the escaped value in
\* place, '<%- x %>' the value as it is, '<%# anything %>' the empty string.
C4_FragmentByMode == [][C4_Step]_vars /\ []C4_Examples

C4_Witness ==
    /\ pc = "rendered"
    /\ written = EscapedTemplate
    /\ data = BoldData
    /\ options = DefaultOptions
    /\ \E i \in 1..Len(source) : source[i] = Stmt("esc", NAME_EXPR)

\* The token the last step scanned
Scanned == matches[index - 1]
JustScanned == pc = "scanning" /\ index > 1

\* C5: a doubled-open marker (open+delim+delim) is never subject to the
\* close-tag check, puts the scanner in LITERAL mode and at once appends the
\* de-doubled text open+delim as literal output; a template that consists of
\* it, or opens with it, compiles and renders ('<%%' renders '<%',
\* '<%%- "foo" %>' renders '<%- "foo" %>').
C5_DoubledOpenSelfTerminating ==
    /\ (pc = "failed" /\ error.message = NO_CLOSE_TAG) =>
          matches[index] # MarkerText("literalOpen", options)
    /\ (JustScanned /\ Scanned = MarkerText("literalOpen", options)) =>
          /\ mode = LITERAL
          /\ source # <<>>
          /\ source[Len(source)].k = "lit"
          /\ StringLiteralValue(source[Len(source)].s) = [ok |-> TRUE, v |-> OD(options)]
    /\ (written = LiteralOpenTemplate /\ pc \in {"rendered", "threw", "failed"}) =>
          pc = "rendered" /\ output = OD(options)
    /\ (written = LiteralTagTemplate /\ pc \in {"rendered", "threw", "failed"}) =>
          pc = "rendered" /\ output = OD(options) \o <<"-", SPACE, QUOTE, "f", "o", "o", QUOTE, SPACE>> \o DC(options)

\* One leading line break, in the claim's words: CR LF counted as one, or a
\* lone CR, or a lone LF
C6_WithoutOneLineBreak(line) ==
    IF Len(line) >= 2 /\ line[1] = CR /\ line[2] = LF THEN SubSeq(line, 3, Len(line))
    ELSE IF Len(line) >= 1 /\ line[1] \in {CR, LF} THEN SubSeq(line, 2, Len(line))
    ELSE line

\* The step from this state passes its token through #addOutput
C6_LiteralOutputStep ==
    /\ pc = "scanning"
    /\ index <= Len(matches)
    /\ index' = index + 1
    /\ \/ mode \in {NONE, LITERAL} /\ \A m \in MarkerKinds : matches[index] # MarkerText(m, options)
       \/ mode = LITERAL /\ matches[index] \in CloseMarkers(options)
          /\ \A m \in OpenKinds \cup {"literalOpen", "literalClose"} :
                matches[index] # MarkerText(m, options)

C6_Step ==
    C6_LiteralOutputStep =>
        LET line == matches[index]
            kept == IF truncate THEN C6_WithoutOneLineBreak(line) ELSE line
        IN /\ C4_Appended = IF kept = <<>> THEN <<>> ELSE <<Stmt("lit", escapeLiteral(kept))>>
           /\ kept # <<>> => StringLiteralValue(C4_Appended[1].s) = [ok |-> TRUE, v |-> kept]
           /\ line \notin CloseMarkers(options) => ~truncate'

C6_PlainClose ==
    (JustScanned /\ Scanned = DC(options)) => ~truncate

\* C6: when the truncate flag is armed and content passes through literal
\* output, exactly one leading line break (CR LF as one, or CR, or LF) is
\* removed from it and the flag is cleared; nothing is appended when nothing
\* is left; a second line break, or one that is not first, stays.  After a
\* plain close marker delim+close the flag is not armed.
C6_TruncateOneLineBreak == [][C6_Step]_vars /\ []C6_PlainClose

\* after '-%>', the content CR LF was scanned: nothing appended, flag cleared
C6_Witness ==
    /\ JustScanned
    /\ index = 5
    /\ Scanned = <<CR, LF>>
    /\ matches[3] = <<"-">> \o DC(options)
    /\ mode = NONE
    /\ ~truncate
    /\ \A i \in 1..Len(source) : source[i].k # "lit"

C6_WitnessSecondKept ==
    /\ JustScanned
    /\ index = 5
    /\ Scanned = <<LF, LF>>
    /\ matches[3] = <<"-">> \o DC(options)
    /\ \E i \in 1..Len(source) : source[i] = Stmt("lit", <<BACKSLASH, "n">>)

IsSubstring(p, t) == \E i \in 1..(Len(t) - Len(p) + 1) : SubSeq(t, i, i + Len(p) - 1) = p

TrimRendered ==
    /\ written = TrimTemplate
    /\ data = ItemsData
    /\ pc \in {"rendered", "threw", "failed"}

\* C7 as first stated: the list items come out with no blank line between
\* them and no line break before '</ul>'.
C7_NoNewlineBeforeEnd ==
    TrimRendered =>
        /\ pc = "rendered"
        /\ ~IsSubstring(<<LF, LF>>, output)
        /\ ~IsSubstring(<<LF>> \o UL_END, output)

\* C7: the template '<ul><% -%>\n<% items.forEach(i => { -%>\n<li><%= i -%>
\* </li>\n<% }) -%>\n</ul>' with a three-element list renders '<ul>', then
\* each item as '<li>item</li>' followed by the line break that follows
\* '</li>' in the template, then '</ul>': no blank line, and the line breaks
\* that follow the four trim-close markers are gone.
C7_TrimTemplateOutput ==
    TrimRendered =>
        /\ pc = "rendered"
        /\ output = UL \o LI \o <<"x">> \o LI_END \o <<LF>>
                       \o LI \o <<"y">> \o LI_END \o <<LF>>
                       \o LI \o <<"z">> \o LI_END \o <<LF>> \o UL_END

C7_Witness ==
    /\ TrimRendered
    /\ pc = "rendered"
    /\ options = DefaultOptions
    /\ Len(matches) = 17

Finished == pc \in {"rendered", "threw", "failed"}

\* C8: a template written with custom single-character delimiters and
\* compiled with those options renders, for the same data, what the same
\* template written with the default delimiters renders with default
\* options, for all ten markers and the whitespace around the trim markers.
C8_CustomDelimitersEquivalent ==
    (Finished /\ options \in {CustomDelimiters, QuestionDelimiter}) =>
        LET r == Render(Spell(written, DefaultOptions), DefaultOptions, data)
        IN /\ (pc = "rendered") = r.ok
           /\ pc = "rendered" => output = r.output

\* C8 for the blanks before a trim-open marker alone
C8_SlurpWithCustomDelimiters ==
    (pc = "rendered" /\ options = QuestionDelimiter /\ written \in {sc.written : sc \in SlurpScenarios}) =>
        output = Render(Spell(written, DefaultOptions), DefaultOptions, data).output

InvalidNameGiven ==
    \/ options.outputFunctionName.set /\ ~IsJSIdentifier(options.outputFunctionName.v)
    \/ ~IsJSIdentifier(options.localsName)

\* C9: compile() with an outputFunctionName or a localsName that is not a
\* valid identifier fails with the naming-validation error that names the
\* option, before anything is scanned, built or run.
C9_InvalidNameRejected ==
    InvalidNameGiven =>
        \/ pc = "start"
        \/ /\ pc = "failed"
           /\ error.name = "Error"
           /\ error.message =
                 (IF options.outputFunctionName.set
                     /\ ~IsJSIdentifier(options.outputFunctionName.v)
                  THEN OUTPUT_NAME_INVALID ELSE LOCALS_NAME_INVALID)
           /\ matches = <<>>
           /\ source = <<>>

\* C9 for the names the pattern of the constructor rejects
C9_PatternRejected ==
    (\/ options.outputFunctionName.set /\ ~JS_IDENTIFIER_REGEX(options.outputFunctionName.v)
     \/ ~JS_IDENTIFIER_REGEX(options.localsName)) =>
        \/ pc = "start"
        \/ pc = "failed" /\ error.message \in {OUTPUT_NAME_INVALID, LOCALS_NAME_INVALID}
           /\ matches = <<>> /\ source = <<>>

\* C10: with cache: true, once a compiled template is stored under a
\* filename, every later cached render of that filename returns the stored
\* function, whatever other files are rendered in between and even when the
\* file has changed: the output of the function first stored is returned.
C10_StoredFunctionReturned ==
    (observed.stored /\ observed.rendered) =>
        observed.output = Invoke(observed.fn, NoData).output

\* C10 while at most CacheMax files have been rendered
C10_StaleWhileNotEvicted ==
    (observed.stored /\ observed.rendered /\ fresh < CacheMax) =>
        observed.output = Invoke(observed.fn, NoData).output

C10_StaleWitness ==
    /\ observed.rendered
    /\ files[Watched] = NEW_TEXT
    /\ observed.output = OLD_TEXT
    /\ fresh = CacheMax - 1

\* What the body of the compiled function does with the data of this state
BodyRun ==
    RunBody(TemplateFunction(source, options, templateText), data, World(files, cache))
Called == pc \in {"rendered", "threw"}
FilenameValue == IF options.filename.set THEN Str(options.filename.v) ELSE Undefined

\* C11: a failure of embedded code at render time is, with compileDebug on,
\* handed to rethrow with the template text, the filename and the current
\* line and thrown again decorated (message rewritten, path set); with
\* compileDebug off it reaches the caller as it was thrown, without a path.
\* Either way the call fails: it returns output only when the body threw
\* nothing.
C11_RenderFailureReachesCaller ==
    Called =>
        /\ (pc = "threw") = (BodyRun.err # "")
        /\ (pc = "threw" /\ options.compileDebug) =>
              /\ error = rethrow(Err(BodyRun.err, "", BodyRun.msg), templateText,
                                 FilenameValue, BodyRun.line, options.escape)
              /\ error.name = BodyRun.err
              /\ error.path.set
              /\ error.detail # BodyRun.msg
        /\ (pc = "threw" /\ ~options.compileDebug) =>
              /\ error.name = BodyRun.err
              /\ error.detail = BodyRun.msg
              /\ ~error.path.set

C11_Witness ==
    /\ pc = "threw"
    /\ options = ErrorFile
    /\ error.name = "ReferenceError"
    /\ error.path = Name(ERROR_ETS)
    /\ Len(error.detail) > Len(BodyRun.msg)

C11_WitnessNoDebug ==
    /\ pc = "threw"
    /\ options = ErrorFileNoDebug
    /\ error.name = "Error"
    /\ error.detail = WHOOPS

ESCAPED_SCRIPT == <<"&", "l", "t", ";", "s", "c", "r", "i", "p", "t", "&", "g", "t", ";">>

\* C12: rethrow sets the path of the error to escape(filename) and rewrites
\* the message to '<escaped filename>:<lineno>', the excerpt, a blank line
\* and the original message; the escape function is options.escape, so the
\* filename '<script>' appears as '&lt;script&gt;' by default and as what a
\* custom escape function returns when one is given.
C12_RethrowPathAndMessage ==
    (pc = "threw" /\ options.compileDebug) =>
        /\ error.path.set
        /\ error.detail = error.path.v \o <<":">> \o NumToStr(BodyRun.line) \o <<LF>>
                          \o context(templateText, BodyRun.line) \o <<LF, LF>>
                          \o BodyRun.msg
        /\ (options.filename = Name(SCRIPT) /\ options.escape = "customEscape") =>
              error.path.v = ESCAPED_SCRIPT
        /\ (options.filename = Name(SCRIPT) /\ options.escape = "zooby") =>
              error.path.v = ZOOBY
        /\ options.filename = Name(ERROR_ETS) => error.path.v = ERROR_ETS

C12_Witness ==
    /\ pc = "threw"
    /\ options = ScriptFile
    /\ error.path = Name(ESCAPED_SCRIPT)
    /\ StartsWith(error.detail, ESCAPED_SCRIPT \o <<":", "2", LF>>)

C12_WitnessCustomEscape ==
    /\ pc = "threw"
    /\ options = ZoobyFile
    /\ StartsWith(error.detail, ZOOBY \o <<":">>)

\* The excerpt of the lines first..last of str, each marked and numbered
C13_Excerpt(str, lineno, first, last) ==
    JoinLF([i \in 1..(last - first + 1) |->
               (IF first + i - 1 = lineno THEN <<SPACE, ">", ">", SPACE>>
                ELSE <<SPACE, SPACE, SPACE, SPACE>>)
               \o NumToStr(first + i - 1) \o <<"|", SPACE>>
               \o SplitLF(str)[first + i - 1]])

C13_Message(excerpt) ==
    error.path.v \o <<":">> \o NumToStr(BodyRun.line) \o <<LF>> \o excerpt
    \o <<LF, LF>> \o BodyRun.msg

\* C13: the excerpt rethrow builds holds exactly the lines from three lines
\* before to three lines after the failing line, clamped to the first and
\* the last line of the text, each prefixed with ' >> ' (the failing line)
\* or '    ', its 1-based number and '| '.
C13_ThreeBeforeThreeAfter ==
    (pc = "threw" /\ options.compileDebug) =>
        error.detail =
            C13_Message(C13_Excerpt(templateText, BodyRun.line,
                                    Max(BodyRun.line - 3, 1),
                                    Min(BodyRun.line + 3, Len(SplitLF(templateText)))))

\* C13 with the window the code takes: from two lines before to three lines
\* after the failing line
C13_TwoBeforeThreeAfter ==
    (pc = "threw" /\ options.compileDebug) =>
        error.detail =
            C13_Message(C13_Excerpt(templateText, BodyRun.line,
                                    Max(BodyRun.line - 2, 1),
                                    Min(BodyRun.line + 3, Len(SplitLF(templateText)))))

C13_WitnessFourthLine ==
    /\ pc = "threw"
    /\ options.compileDebug
    /\ BodyRun.line = 4
    /\ Len(SplitLF(templateText)) = 6

\* The tokens scanned so far
C14_Scanned == Cat(SubSeq(matches, 1, index - 1))

C14_LineCounted ==
    (pc = "scanning" /\ options.compileDebug) =>
        currentLine = 1 + Count(C14_Scanned, LF)

C14_LineStatementStep ==
    (pc = "scanning" /\ index <= Len(matches) /\ index' = index + 1
     /\ options.compileDebug) =>
        LET new == SubSeq(source', Len(source) + 1, Len(source'))
            lineStmts == {i \in 1..Len(new) : new[i].k = "line"}
        IN IF Count(matches[index], LF) > 0
           THEN /\ lineStmts = {Len(new)}
                /\ new[Len(new)] = LineStmt(currentLine')
           ELSE lineStmts = {}

\* The content token of the tag that fails: the first that names qdata
C14_FailingTokens ==
    {i \in 2..Len(matches) :
        /\ IsSubstring(Trim(QDATA), matches[i])
        /\ matches[i - 1] \in {MarkerText(m, options) : m \in {"open", "escaped", "raw"}}}

C14_FailingLine ==
    LET i == CHOOSE k \in C14_FailingTokens : \A j \in C14_FailingTokens : k <= j
    IN 1 + Count(Cat(SubSeq(matches, 1, i - 1)), LF)

C14_LineHandedToRethrow ==
    (pc = "threw" /\ options.compileDebug /\ C14_FailingTokens # {}) =>
        /\ BodyRun.line = C14_FailingLine
        /\ StartsWith(error.detail,
                      error.path.v \o <<":">> \o NumToStr(C14_FailingLine) \o <<LF>>)

\* C14: with compileDebug on, after any prefix of the tokens is scanned,
\* currentLine is 1 plus the number of newline characters in the tokens
\* scanned so far (comments, code and literal text whose leading line break
\* is truncated included); a '__line = currentLine' statement follows the
\* fragment of every token that holds a newline and of no other token; so
\* the line handed to rethrow for a failing tag is the template line on
\* which the content of that tag starts.
C14_LineTracking ==
    [][C14_LineStatementStep]_vars /\ []C14_LineCounted /\ []C14_LineHandedToRethrow

\* the failing tag stands after a line break that a trim-close removed and
\* its code starts two lines before the name that fails
C14_Witness ==
    /\ pc = "threw"
    /\ options = DefaultOptions
    /\ matches[3] = <<"-">> \o DC(options)
    /\ matches[4] = <<LF>>
    /\ matches[6] = <<LF, LF>> \o QDATA
    /\ BodyRun.line = 2
    /\ currentLine = 5

C15_Shape(mo, ct) == <<Text(<<"a">>), Marker(mo), Text(ct), Marker("close"), Text(<<"b">>)>>
C15_Renders(ct, env, out) ==
    \A mo \in {"escaped", "raw"} :
        (written = C15_Shape(mo, ct) /\ data = env /\ options.escape = "customEscape"
         /\ pc \in {"rendered", "threw", "failed"}) =>
            pc = "rendered" /\ output = out

\* C15: the default escape function gives the empty string for null and for
\* undefined and the escaped String(value) for every other value, zero
\* included; the append helper adds nothing for null and undefined and the
\* value otherwise: '<%= 0 %>' and '<%- 0 %>' render '0', the same tags
\* around null or undefined render ''.
C15_NullUndefinedZero ==
    /\ customEscape(Null) = <<>>
    /\ customEscape(Undefined) = <<>>
    /\ customEscape(Num(ZERO)) = ZERO
    /\ customEscape(Str(SCRIPT)) = ESCAPED_SCRIPT
    /\ append(<<"a">>, Null) = <<"a">>
    /\ append(<<"a">>, Undefined) = <<"a">>
    /\ append(<<"a">>, Num(ZERO)) = <<"a", "0">>
    /\ \A env \in {NoData, NData} :
          /\ C15_Renders(<<SPACE, "0", SPACE>>, env, <<"a", "0", "b">>)
          /\ C15_Renders(<<SPACE, "1", "0", SPACE>>, env, <<"a", "1", "0", "b">>)
          /\ C15_Renders(<<SPACE>> \o NULL \o <<SPACE>>, env, <<"a", "b">>)
          /\ C15_Renders(<<SPACE>> \o UNDEFINED \o <<SPACE>>, env, <<"a", "b">>)
    /\ C15_Renders(<<SPACE, "n", SPACE>>, NullData, <<"a", "b">>)
    /\ C15_Renders(<<SPACE, "n", SPACE>>, UndefinedData, <<"a", "b">>)
    /\ C15_Renders(<<SPACE, "n", SPACE>>, ZeroData, <<"a", "0", "b">>)
    /\ C15_Renders(<<SPACE, "n", SPACE>>, EmptyData, <<"a", "b">>)

C15_Witness ==
    /\ pc = "rendered"
    /\ written = C15_Shape("escaped", <<SPACE, "0", SPACE>>)
    /\ options = DefaultOptions
    /\ output = <<"a", "0", "b">>

C15_WitnessNull ==
    /\ pc = "rendered"
    /\ written = C15_Shape("raw", <<SPACE>> \o NULL \o <<SPACE>>)
    /\ output = <<"a", "b">>

\* What call f returns or throws when it is the only call, the files being
\* as they were when it began
Alone(f) == returnedFn(Compiled, f.data, World(f.began, <<>>))

\* C16: two calls of the same compiled function that run interleaved at
\* their awaits each return, or throw, exactly what they would when run
\* alone: each call has its own accumulator and its own include closure over
\* its own data.
C16_ConcurrentCallsAsAlone ==
    \A i \in 1..Len(calls) :
       /\ calls[i].st.data = calls[i].data
       /\ calls[i].status = "awaiting" =>
             \A b \in {calls[i].data[k] : k \in 1..Len(calls[i].data)} :
                Bound(calls[i].awaited.locals, b.id)
       /\ Ended(calls[i]) =>
             \A r \in {Alone(calls[i])} :
                /\ r.ok = (calls[i].status = "returned")
                /\ r.output = calls[i].output
                /\ r.error = calls[i].error

\* The second call began, ran and returned while the first, called with
\* other data, awaits its include after it appended a fragment
C16_Witness ==
    /\ Len(calls) = 2
    /\ calls[1].status = "awaiting"
    /\ calls[1].st.out # <<>>
    /\ calls[2].status = "returned"
    /\ calls[2].data # calls[1].data
    /\ calls[2].output = <<"a", "(", "2", ")", "c", "2">>

\* The accumulator of a frame that stands at operation pos holds what the
\* operations before pos append, in their order
C17_InOrder(f) ==
    f.st.out = ExecOps(Program, 1, f.pos - 1, f.data,
                       NewFrame(Compiled, f.data, World(f.began, <<>>))).out

C17_Accumulated ==
    \A i \in 1..Len(calls) :
       /\ calls[i].status \in {"running", "awaiting", "returned"} => C17_InOrder(calls[i])
       /\ calls[i].status = "returned" =>
             /\ calls[i].pos = Len(Program) + 1
             /\ calls[i].output = calls[i].st.out

\* A step appends to the accumulator of a call or leaves it; a call that
\* awaits stays at its operation, and leaves it for the next one with the
\* result appended; no operation is skipped; a call returns its accumulator
\* from behind the last operation
C17_AppendStep ==
    \A i \in 1..Len(calls) :
       /\ StartsWith(calls'[i].st.out, calls[i].st.out)
       /\ calls'[i].pos \in {calls[i].pos} \cup
             (IF calls[i].pos <= Len(Program) THEN {NextOp(Program, calls[i].pos)} ELSE {})
       /\ (calls[i].status = "running" /\ calls'[i].status = "awaiting") =>
             calls'[i].st.out = calls[i].st.out
       /\ (calls[i].status = "awaiting" /\ calls'[i].status = "running") =>
             /\ calls'[i].pos = calls[i].pos + 1
             /\ calls'[i].st.out =
                   calls[i].st.out
                   \o includeSettled(calls[i].awaited, options, World(files, cache)).output
       /\ (calls[i].status # "returned" /\ calls'[i].status = "returned") =>
             /\ calls[i].pos > Len(Program)
             /\ calls'[i].output = calls[i].st.out

\* C17: within one call the fragments are appended in document order: the
\* result of an awaited include is appended before any later fragment, and
\* the call returns only after the last append.
C17_DocumentOrder == [][C17_AppendStep]_vars /\ []C17_Accumulated

\* A call went on behind an awaited include, with fragments still to come
C17_Witness ==
    \E i \in 1..Len(calls) :
       /\ calls[i].status = "running"
       /\ calls[i].pos <= Len(Program)
       /\ \E k \in 1..(calls[i].pos - 1) : Program[k].kind = "include"
       /\ calls[i].st.out = <<"a", "(", "1", ")">>

AMP_PART == <<"(", "&", "a", "m", "p", ";", ")">>

\* C18: include(path, extraData) renders the included template with data
\* that hold every key of the call's data, extraData's value winning; the
\* call's own data are not modified, and the fragments after the include see
\* the original values.
C18_IncludeData ==
    \A i \in 1..Len(calls) :
       /\ calls[i].st.data = calls[i].data
       /\ (calls[i].status = "awaiting" /\ Program[calls[i].pos].y.given) =>
             /\ \A k \in 1..Len(Program[calls[i].pos].y.props) :
                   Lookup(calls[i].awaited.locals, Program[calls[i].pos].y.props[k].id)
                      = Str(Program[calls[i].pos].y.props[k].text)
             /\ \A k \in 1..Len(calls[i].data) :
                   /\ Bound(calls[i].awaited.locals, calls[i].data[k].id)
                   /\ (\A j \in 1..Len(Program[calls[i].pos].y.props) :
                          Program[calls[i].pos].y.props[j].id # calls[i].data[k].id)
                      => Lookup(calls[i].awaited.locals, calls[i].data[k].id)
                            = calls[i].data[k].val
       /\ (text = INCLUDE_PART_AS \o SHOW_N /\ calls[i].status = "returned") =>
             calls[i].output = AMP_PART \o Lookup(calls[i].data, N).v

C18_Witness ==
    /\ text = INCLUDE_PART_AS \o SHOW_N
    /\ \E i \in 1..Len(calls) :
          /\ calls[i].status = "returned"
          /\ Lookup(calls[i].data, N) = Str(<<"2">>)
          /\ calls[i].output = AMP_PART \o <<"2">>

\* C19: with cache off every include() of every call resolves, reads and
\* compiles the file again: a call renders the included file as it is when
\* the call runs, and nothing is kept for the next call.
C19_IncludeIsDynamic ==
    ~options.cache =>
       /\ cache = <<>>
       /\ \A i \in 1..Len(calls) :
             (text = <<"[">> \o INCLUDE_WATCHED \o <<"]">> /\ calls[i].status = "returned")
                => calls[i].output = <<"[">> \o calls[i].began[WATCHED_ETS] \o <<"]">>

\* The file was rewritten between the two calls and the second call shows it
C19_Witness ==
    /\ ~options.cache
    /\ Len(calls) = 2
    /\ calls[1].status = "returned"
    /\ calls[1].output = <<"[">> \o OLD_TEXT \o <<"]">>
    /\ calls[2].status = "returned"
    /\ calls[2].output = <<"[">> \o NEW_TEXT \o <<"]">>

\* What included the file that is nowhere threw
C20_Failed(f) ==
    /\ text = <<"a">> \o INCLUDE_MISSING
    /\ f.status = "threw"

C20_CouldNotFind(f) ==
    /\ f.st.err = "Error"
    /\ f.st.msg = COULD_NOT_FIND_INCLUDE \o ESCAPED_MISSING \o <<QUOTE>>

\* C20: the include of a relative path that is found neither beside the
\* rendering file nor in a views directory fails with 'Could not find the
\* include file "<escaped path>"', whether views is unset or a list.
C20_CouldNotFindIncludeFile ==
    \A i \in 1..Len(calls) : C20_Failed(calls[i]) => C20_CouldNotFind(calls[i])

\* C20, as far as it holds: the include fails, with that message when views
\* is unset and with 'resolvePaths(): path not found' when views is a list
C20_FailsByViews ==
    /\ text = <<"a">> \o INCLUDE_MISSING =>
          \A i \in 1..Len(calls) : calls[i].status # "returned"
    /\ \A i \in 1..Len(calls) :
          C20_Failed(calls[i]) =>
             IF options.views.set
             THEN calls[i].st.err = "Error" /\ calls[i].st.msg = PATH_NOT_FOUND
             ELSE C20_CouldNotFind(calls[i])

C20_WitnessUnset ==
    /\ ~options.views.set
    /\ options.filename.set
    /\ \E i \in 1..Len(calls) : C20_Failed(calls[i]) /\ C20_CouldNotFind(calls[i])

C20_WitnessList ==
    /\ options.views.set
    /\ options.views.v # <<>>
    /\ \E i \in 1..Len(calls) : C20_Failed(calls[i]) /\ calls[i].st.msg = PATH_NOT_FOUND

\* The ten strings the switch of Template.scanLine compares a token against
ScanMarkers(opts) ==
    {OD(opts) \o <<opts.delimiter>>, <<opts.delimiter>> \o DC(opts),
     OD(opts) \o <<"=">>, OD(opts) \o <<"-">>, OD(opts) \o <<"_">>,
     OD(opts) \o <<"#">>, OD(opts)} \cup CloseMarkers(opts)

\* The strings the pattern matches: its alternatives, each matched literally
Alternatives(pat) == {pat[a] : a \in 1..Len(pat)}

\* C23: for every choice of the three delimiter characters the pattern that
\* createRegex builds matches exactly the ten marker strings built from
\* them, the strings scanLine compares tokens against.
C23_PatternIsTheTenMarkers ==
    pc = "constructed" => Alternatives(regex) = ScanMarkers(options)

\* C23, as far as it holds: when the delimiter is neither "<" nor ">" and
\* the open delimiter is not ">", the three replacements do not meet and
\* the pattern is the ten markers
C23_PatternWhenReplacementsApart ==
    (/\ pc = "constructed"
     /\ options.delimiter \notin {"<", ">"}
     /\ options.openDelimiter # ">")
       => Alternatives(regex) = ScanMarkers(options)

C23_WitnessApart ==
    /\ pc = "constructed"
    /\ options.openDelimiter = "-"
    /\ options.delimiter = "%"
    /\ options.closeDelimiter = "<"
    /\ Alternatives(regex) = ScanMarkers(options)

\* The file name an include path stands for: the path, with ".ets" when it
\* has no extension
C21_FileName(name) == IF "." \in {name[i] : i \in 1..Len(name)} THEN name ELSE name \o ETS_EXTENSION

\* The directories an include from a file searches, in order: the file's
\* own, then the views directories
C21_Directories(file, views) ==
    (IF file.set THEN <<dirname(file.v)>> ELSE <<>>) \o (IF views.set THEN views.v ELSE <<>>)

\* The file of the first directory that holds one of that name, or <<>>
RECURSIVE C21_First(_, _)
C21_First(dirs, name) ==
    IF dirs = <<>> THEN <<>>
    ELSE IF InDirectory(Head(dirs), name) \in DOMAIN files THEN InDirectory(Head(dirs), name)
    ELSE C21_First(Tail(dirs), name)

C21_Taken == C21_First(C21_Directories(options.filename, options.views),
                       C21_FileName(IF text = INCLUDE_X THEN X ELSE X_ETS))

\* What the file p renders: its text, where an include of y is the text of
\* the y found from p
C21_Rendering(p) ==
    IF Len(files[p]) = 1 THEN files[p]
    ELSE <<files[p][1]>>
         \o files[C21_First(C21_Directories(Name(p), options.views), C21_FileName(Y))]

\* C21: an include by relative path takes the file of that name (with .ets
\* when the path has no extension) beside the file that is rendering when
\* it exists there, and otherwise the file of the first views directory, in
\* the configured order, that holds it; a directory that does not hold it
\* (or does not exist) is passed over.
C21_RelativeIncludeOrder ==
    (pc \in {"rendered", "threw"} /\ C21_Taken # <<>>)
       => (pc = "rendered" /\ output = C21_Rendering(C21_Taken))

\* x is beside the main file without the extension only; the first views
\* directory has x.ets but no y.ets, the second has both
C21_Witness ==
    /\ pc = "rendered"
    /\ text = INCLUDE_X
    /\ options.filename.set
    /\ options.views = [set |-> TRUE, v |-> <<THIRD_DIRECTORY, OTHER_DIRECTORY>>]
    /\ DOMAIN files = YFiles \cup (XFiles \ {InDirectory(VIEWS_DIRECTORY, X_ETS)})
    /\ output = <<"t", "U">>

\* C22: a render with cache: true and no file name (none given, or the
\* empty string) throws 'cache option requires a filename' whatever the
\* template is, also one that does not compile, and whatever the cache
\* holds; the cache stays as it was, its order of use included.
C22_CacheRequiresFilename ==
    [][(options'.cache /\ ~(options'.filename.set /\ options'.filename.v # <<>>))
          => /\ pc' = "threw"
             /\ error' = Err("Error", "", CACHE_REQUIRES_FILENAME)
             /\ output' = <<>>
             /\ cache' = cache]_vars

\* Two functions are cached, and a template that does not compile is
\* rendered with cache: true and no file name
C22_Witness ==
    /\ pc = "threw"
    /\ text = UNCLOSED
    /\ options.cache
    /\ ~options.filename.set
    /\ Len(cache) = 2
    /\ error = Err("Error", "", CACHE_REQUIRES_FILENAME)

\* The content ends inside a line comment: it has a '//' with no line break
\* anywhere after it
C24_EndsInLineComment(line) ==
    \E i \in 1..(Len(line) - 1) :
       /\ line[i] = "/" /\ line[i + 1] = "/"
       /\ \A j \in (i + 1)..Len(line) : line[j] # LF

\* The statements the scan of the token has just added, the __line
\* statements apart
C24_Added ==
    SelectSeq(SubSeq(source', Len(source) + 1, Len(source')), LAMBDA s : s.k # "line")

C24_Inlined(line) == IF C24_EndsInLineComment(line) THEN Append(line, LF) ELSE line

\* C24: the content of an EVAL, ESCAPED or RAW tag is inlined with a line
\* break appended when it ends inside a line comment and unchanged
\* otherwise, so what is inlined never ends inside a line comment; COMMENT
\* content adds nothing, and content in NONE or LITERAL mode is written as
\* the string literal of the content itself.
C24_LineCommentClosed ==
    [][(pc = "scanning" /\ index' = index + 1 /\ ~IsMarker(matches[index], options))
          => /\ mode \in {EVAL, ESCAPED, RAW} =>
                  /\ Len(C24_Added) = 1
                  /\ C24_Added[1].k = (IF mode = EVAL THEN "eval"
                                       ELSE IF mode = ESCAPED THEN "esc" ELSE "raw")
                  /\ C24_Added[1].s = C24_Inlined(matches[index])
                  /\ ~C24_EndsInLineComment(C24_Added[1].s)
             /\ mode = COMMENT => C24_Added = <<>>
             /\ mode \in {NONE, LITERAL} =>
                  C24_Added = <<Stmt("lit", escapeLiteral(matches[index]))>>]_vars

\* '<%=x//x%>z' scanned: the statement is the content and a line break
C24_Witness ==
    /\ pc = "scanning"
    /\ text = <<"<", "%", "=", "x", "/", "/", "x", "%", ">", "z">>
    /\ index = 3
    /\ source[1] = Stmt("esc", <<"x", "/", "/", "x", LF>>)

\* '<%-//\nx%>z' scanned: the line break follows the comment and the
\* content is inlined as it is
C24_WitnessUnchanged ==
    /\ pc = "scanning"
    /\ text = <<"<", "%", "-", "/", "/", LF, "x", "%", ">", "z">>
    /\ index = 3
    /\ source[1] = Stmt("raw", <<"/", "/", LF, "x">>)

\* The text the slurp step is given: the template text, after the
\* rmWhitespace pass when that option is set
C25_Given == IF options.rmWhitespace THEN rmWhitespace(text) ELSE text

\* The start of the run of spaces and tabs that position i of s is in
C25_RunStart(s, i) ==
    CHOOSE p \in 1..i :
       /\ \A k \in p..i : IsBlank(s[k])
       /\ p = 1 \/ ~IsBlank(s[p - 1])

\* Position i of s is a space or tab of a run that stands right before the
\* marker open or right after the marker close
C25_Removed(s, i, open, close) ==
    /\ IsBlank(s[i])
    /\ \/ StartsWith(Drop(s, RunEnd(s, i, {SPACE, TAB})), open)
       \/ /\ C25_RunStart(s, i) > Len(close)
          /\ SubSeq(s, C25_RunStart(s, i) - Len(close), C25_RunStart(s, i) - 1) = close

RECURSIVE C25_Slurped(_, _, _, _)
C25_Slurped(s, i, open, close) ==
    IF i > Len(s) THEN <<>>
    ELSE (IF C25_Removed(s, i, open, close) THEN <<>> ELSE <<s[i]>>)
         \o C25_Slurped(s, i + 1, open, close)

\* C25: before the scan, every run of spaces and tabs right before a
\* trim-open marker (open+delim+'_') and right after a trim-close marker
\* ('_'+delim+close) is removed from the template text, with rmWhitespace
\* set or not, and nothing else is changed by that step.
C25_SlurpAroundTrimMarkers ==
    (pc = "scanning" /\ index = 1) =>
       templateText = C25_Slurped(C25_Given, 1, OD(options) \o <<"_">>,
                                  <<"_">> \o DC(options))

\* C25, as far as it holds: with the default delimiters
C25_SlurpAroundDefaultMarkers ==
    (/\ pc = "scanning" /\ index = 1
     /\ OD(options) = <<"<", "%">> /\ DC(options) = <<"%", ">">>) =>
       templateText = C25_Slurped(C25_Given, 1, SLURP_OPEN, SLURP_CLOSE)

\* 'a <%_ _%> \na' has lost the blanks before '<%_' and after '_%>' and
\* kept the one between them
C25_WitnessDefault ==
    /\ pc = "scanning" /\ index = 1
    /\ options = DefaultOptions
    /\ text = <<"a", SPACE, "<", "%", "_", SPACE, "_", "%", ">", SPACE, LF, "a">>
    /\ templateText = <<"a", "<", "%", "_", SPACE, "_", "%", ">", LF, "a">>

\* What the claim has each marker do to the mode, and a content token leave
C26_ModeSet(tok, opts, before, after) ==
    /\ tok \in {OD(opts), OD(opts) \o <<"_">>} => after = EVAL
    /\ tok = OD(opts) \o <<"=">> => after = ESCAPED
    /\ tok = OD(opts) \o <<"-">> => after = RAW
    /\ tok = OD(opts) \o <<"#">> => after = COMMENT
    /\ tok \in {OD(opts) \o <<opts.delimiter>>, <<opts.delimiter>> \o DC(opts)}
          => after = LITERAL
    /\ tok \in CloseMarkers(opts) => after = NONE
    /\ tok \notin ScanMarkers(opts) => after = before

\* C26: the mode starts as NONE; every marker token sets the mode that
\* belongs to the marker, whatever the mode was, and a content token leaves
\* the mode as it was.
C26_ModeByMarkerAlone ==
    /\ mode = NONE
    /\ [][(pc = "scanning" /\ index' = index + 1)
             => C26_ModeSet(matches[index], options, mode, mode')]_vars

\* C26, as far as it holds: for the delimiters whose ten markers are ten
\* different strings
C26_ModeByDistinctMarkers ==
    /\ mode = NONE
    /\ [][(pc = "scanning" /\ index' = index + 1 /\ Cardinality(ScanMarkers(options)) = 10)
             => C26_ModeSet(matches[index], options, mode, mode')]_vars

\* A close marker has been scanned in LITERAL mode and the mode is NONE
C26_WitnessDistinct ==
    /\ pc = "scanning"
    /\ index = 3
    /\ Cardinality(ScanMarkers(options)) = 10
    /\ matches[1] = OD(options) \o <<options.delimiter>>
    /\ matches[2] \in CloseMarkers(options)
    /\ mode = NONE

\* Where token k of the scan starts in the scanned text
RECURSIVE C27_Start(_)
C27_Start(k) == IF k = 1 THEN 1 ELSE C27_Start(k - 1) + Len(matches[k - 1])

C27_IsToken(k) == k \in 1..Len(matches) /\ matches[k] \in Alternatives(regex)

\* C27: where more than one marker matches at the place a marker token is
\* taken, the token is the longest of them.
C27_LongestMarker ==
    pc = "scanning" =>
       \A k \in 1..Len(matches) :
          C27_IsToken(k) =>
             \A a \in MatchesAt(regex, templateText, C27_Start(k)) :
                Len(regex[a]) <= Len(matches[k])

\* The three-character opening markers of a configuration
C27_Openings(opts) ==
    {OD(opts) \o <<ch>> : ch \in {opts.delimiter, "=", "-", "_", "#"}}

\* C27, the two cases it names, which hold: a three-character opening
\* marker is never scanned as open+delim and a literal character, and
\* delim+delim+close never as a literal delim and delim+close
C27_NamedMarkersWhole ==
    pc = "scanning" =>
       \A k \in 1..Len(matches) :
          /\ (C27_IsToken(k) /\ matches[k] = OD(options)) =>
                \A m \in C27_Openings(options) \cap Alternatives(regex) :
                   ~StartsWith(Drop(templateText, C27_Start(k)), m)
          /\ (C27_IsToken(k) /\ matches[k] = DC(options) /\ k > 1 /\ ~C27_IsToken(k - 1)) =>
                ~(/\ <<options.delimiter>> \o DC(options) \in Alternatives(regex)
                  /\ StartsWith(Drop(templateText, C27_Start(k) - 1),
                                <<options.delimiter>> \o DC(options)))

\* '<%-' with the default delimiters is one token
C27_WitnessWhole ==
    /\ pc = "scanning"
    /\ options = DefaultOptions
    /\ templateText = <<"<", "%", "-">>
    /\ matches = <<<<"<", "%", "-">>>>

C28_Unmatched == pc = "failed" /\ error.message = NO_CLOSE_TAG

\* C28 as claimed: when compile() fails for a missing close tag, no token
\* has been processed: mode, truncate flag, line counter and source buffer
\* hold their initial values.
C28_NothingScannedAtFailure ==
    C28_Unmatched => ScanState = InitialScan

\* What the scan of the first n tokens leaves
RECURSIVE C28_Scanned(_)
C28_Scanned(n) ==
    IF n = 0 THEN InitialScan ELSE scanLine(C28_Scanned(n - 1), matches[n], options)

\* C28, amended: the close tag is looked for in the loop that processes the
\* tokens, for each token right before it is processed.  When compile()
\* fails for a missing close tag, the opening marker named by the error is
\* the first that lacks one; it and the tokens after it have not been
\* processed, every token before it has, and mode, truncate flag, line
\* counter and source buffer are what the scan of those tokens left.
C28_ScannedUpToFailure ==
    C28_Unmatched =>
       /\ index \in 1..Len(matches)
       /\ closeTagMissing(matches, index, options)
       /\ error.detail = matches[index]
       /\ \A k \in 1..(index - 1) : ~closeTagMissing(matches, k, options)
       /\ ScanState = C28_Scanned(index - 1)

\* The failing marker is not the first token, and text before it is in the
\* source buffer
C28_Witness ==
    /\ C28_Unmatched
    /\ index > 1
    /\ source # <<>>
    /\ ScanState = C28_Scanned(index - 1)

\* The "lit" statements the scan of the token has just added
C29_Added ==
    SelectSeq(SubSeq(source', Len(source) + 1, Len(source')), LAMBDA s : s.k = "lit")

\* The text the token stands for as literal output: the de-doubled marker
\* for a literal-escape marker, else the token, less the line break that a
\* trimming close marker before it takes
C29_LiteralText(tok, opts) ==
    IF tok = OD(opts) \o <<opts.delimiter>> THEN OD(opts)
    ELSE IF tok = <<opts.delimiter>> \o DC(opts) THEN DC(opts)
    ELSE IF truncate THEN stripLeadingLineBreak(tok) ELSE tok

\* C29: every literal-output fragment is a string literal that the host
\* reads back as the literal text itself: plain text, text and close
\* markers in LITERAL mode, and the de-doubled text of a literal-escape
\* marker, whatever the delimiters are.
C29_LiteralRoundTrip ==
    [][(pc = "scanning" /\ index' = index + 1)
          => \A i \in 1..Len(C29_Added) :
                /\ StringLiteralValue(C29_Added[i].s).ok
                /\ StringLiteralValue(C29_Added[i].s).v
                      = C29_LiteralText(matches[index], options)]_vars

\* C29, as far as it holds: for every token that is not a literal-escape
\* marker, and for these markers when no delimiter is a double quote or a
\* backslash
C29_EscapedRoundTrip ==
    [][(/\ pc = "scanning" /\ index' = index + 1
        /\ \/ matches[index] \notin {OD(options) \o <<options.delimiter>>,
                                    <<options.delimiter>> \o DC(options)}
           \/ {options.openDelimiter, options.delimiter, options.closeDelimiter}
                 \cap {QUOTE, BACKSLASH} = {})
          => \A i \in 1..Len(C29_Added) :
                /\ StringLiteralValue(C29_Added[i].s).ok
                /\ StringLiteralValue(C29_Added[i].s).v
                      = C29_LiteralText(matches[index], options)]_vars

\* The text of a backslash, a double quote and a line break is in the
\* source buffer, each escaped
C29_WitnessEscaped ==
    /\ pc = "scanning"
    /\ options = DefaultOptions
    /\ text = <<BACKSLASH, QUOTE, LF>>
    /\ index = 2
    /\ source[1] = Stmt("lit", <<BACKSLASH, BACKSLASH, BACKSLASH, QUOTE, BACKSLASH, "n">>)

\* The error a failing call throws when rethrow is handed str as the source
\* of the excerpt
C30_Rethrown(str) ==
    rethrow(Thrown(BodyRun), str, sanitizedFilename(options), BodyRun.line, options.escape)

\* C30 as claimed: with compileDebug on, the excerpt of a failing call is
\* cut from the template text as it was given to compile().
C30_ExcerptOfOriginalText ==
    (pc = "threw" /\ options.compileDebug) => error = C30_Rethrown(text)

\* C30, amended: with compileDebug on, the text handed to rethrow is the
\* template text as generateSource left it for the scan: the text given to
\* compile() after the rmWhitespace pass, when that option is set, and after
\* the blanks around '<%_' and '_%>' are slurped.  It is the text in which
\* the line counter counts.
C30_ExcerptOfScannedText ==
    (pc = "threw" /\ options.compileDebug) =>
       error = C30_Rethrown(preprocess(text, options))

\* rmWhitespace has changed the text and the call has failed
C30_Witness ==
    /\ pc = "threw"
    /\ options.compileDebug
    /\ options.rmWhitespace
    /\ preprocess(text, options) # text
    /\ C30_Rethrown(preprocess(text, options)) # C30_Rethrown(text)
    /\ error = C30_Rethrown(preprocess(text, options))

\* The name the message is to show when the template has no file name
PLACEHOLDER_NAME == <<"e", "t", "s">>

\* C31: when a failing call is decorated and the template has no file name,
\* the first line of the message is 'ets:<lineno>'.
C31_PlaceholderName ==
    (pc = "threw" /\ options.compileDebug /\ ~options.filename.set) =>
       StartsWith(error.detail, PLACEHOLDER_NAME \o <<":">> \o NumToStr(BodyRun.line) \o <<LF>>)

\* C31, what the code does: with no file name and the default escape
\* function the path is the empty string and the first line is ':<lineno>'
C31_EmptyName ==
    (/\ pc = "threw" /\ options.compileDebug /\ ~options.filename.set
     /\ options.escape = "customEscape") =>
       /\ error.path = Name(<<>>)
       /\ StartsWith(error.detail, <<":">> \o NumToStr(BodyRun.line) \o <<LF>>)

C31_WitnessEmptyName ==
    /\ pc = "threw"
    /\ options = DefaultOptions
    /\ BodyRun.line = 2
    /\ StartsWith(error.detail, <<":", "2", LF>>)

\* compile() has failed on the program it synthesized: the scan went
\* through and the build threw
C32_InvalidProgram == pc = "failed" /\ index > Len(matches)

\* The message names the file when one is known and ends with the pointer
\* to the linting tool
C32_Augmented ==
    /\ error.message = WHILE_COMPILING
    /\ error.detail = (IF options.filename.set /\ options.filename.v # <<>>
                       THEN IN_FILE \o options.filename.v ELSE <<>>)

\* C32: whenever the synthesized program does not parse or compile, the
\* error compile() throws has its message augmented with the file name,
\* when one is known, and the pointer to the linting tool, whichever step
\* of compile() detects it.
C32_InvalidProgramAugmented == C32_InvalidProgram => C32_Augmented

\* C32, as far as it holds: the SyntaxError of the function constructor is
\* augmented; what esbuild.transform throws reaches the caller as it is
C32_AugmentedByStep ==
    C32_InvalidProgram =>
       IF ProgramParses(source) THEN error.name = "SyntaxError" /\ C32_Augmented
       ELSE error = transformError

C32_WitnessConstructor ==
    /\ C32_InvalidProgram
    /\ options.localsName = RESERVED
    /\ options.filename = Name(MAIN_ETS)
    /\ error.name = "SyntaxError"
    /\ error.detail = IN_FILE \o MAIN_ETS

C32_WitnessTransform ==
    /\ C32_InvalidProgram
    /\ text = NO_EXPRESSION
    /\ options.filename = Name(MAIN_ETS)
    /\ error = transformError


\* handleCache(options, template) called alone, with nothing cached
LoneCall(a) ==
    IF a.given THEN handleCacheGiven(a.options, a.template, World(files, <<>>))
    ELSE handleCacheOf(a.options, World(files, <<>>))

\* Every call so far is the same cached compile
C33_SameCalls ==
    /\ calls # <<>>
    /\ calls[1].args.options.cache
    /\ \A i \in 1..Len(calls) : calls[i].args = calls[1].args

C33_HasFunction(f) == f.status \in {"returned", "rendered", "failed"}

C33_AllEnded == \A i \in 1..Len(calls) : calls[i].status \in {"returned", "rendered", "failed", "threw"}

\* C33: calls of handleCache with cache: true and the same arguments, for
\* one file name, interleaved in every way at their awaits: each call
\* returns the function a lone call returns (or throws what it throws),
\* and once they have all ended the cache holds one entry for the file
\* name, with that function.
C33_Idempotent ==
    C33_SameCalls =>
       /\ \A i \in 1..Len(calls) :
             /\ C33_HasFunction(calls[i]) =>
                   LoneCall(calls[1].args).ok /\ calls[i].fn = LoneCall(calls[1].args).fn
             /\ calls[i].status = "threw" =>
                   ~LoneCall(calls[1].args).ok /\ calls[i].error = LoneCall(calls[1].args).error
       /\ (C33_AllEnded /\ LoneCall(calls[1].args).ok) =>
             cache = <<[key |-> calls[1].args.options.filename.v,
                        fn |-> LoneCall(calls[1].args).fn]>>

\* Two calls read the file and compile side by side; the first has
\* returned and stored its function while the second still compiles
C33_Witness ==
    /\ C33_SameCalls
    /\ Len(calls) = 2
    /\ ~calls[1].args.given
    /\ calls[1].status = "returned"
    /\ calls[2].status = "compiling"
    /\ Len(cache) = 1

\* Both of two calls that compiled side by side have returned
C33_WitnessBoth ==
    /\ C33_SameCalls
    /\ Len(calls) = 2
    /\ calls[1].template # <<>> /\ calls[2].template # <<>>
    /\ ~calls[1].args.given
    /\ calls[1].status = "returned"
    /\ calls[2].status = "returned"
    /\ Len(cache) = 1


\* The call that has just begun
C34_Begun == calls'[Len(calls')]

\* C34: a call of handleCache with cache: true whose file name has an entry
\* in the cache returns that entry at once: it awaits neither the file nor
\* the compiler, whatever template it was given and whatever its other
\* options are, which may differ from those the entry was compiled with.
C34_KeyIsFilename ==
    [][(/\ Len(calls') = Len(calls) + 1
        /\ C34_Begun.args.options.cache
        /\ Has(cache, C34_Begun.args.options.filename.v))
          => /\ C34_Begun.status = "returned"
             /\ C34_Begun.fn = cacheGet(cache, C34_Begun.args.options.filename.v).fn
             /\ C34_Begun.template = C34_Begun.args.template
             /\ calls' = Append(calls, C34_Begun)
             /\ cache' = cacheGet(cache, C34_Begun.args.options.filename.v).cache]_vars

\* A call given a template that has no close tag, or other delimiters, got
\* the function compiled earlier from the file with other options
C34_Witness ==
    /\ Len(calls) = 2
    /\ calls[2].status = "returned"
    /\ calls[2].args.given
    /\ calls[2].args.template \in {UNCLOSED, SHOW_N}
    /\ calls[2].fn.options # calls[2].args.options
    /\ calls[2].fn.templateText = files[MAIN_ETS]
    /\ calls[2].fn.templateText # calls[2].args.template


\* Call i of handleCache fails in this step, at the file or at the compiler
C38_CompileFails(i) ==
    /\ calls[i].status \in {"reading", "compiling"}
    /\ calls'[i].status = "threw"
    /\ calls[i].args.options.cache

\* The function call i got from handleCache fails in this step
C38_RenderFails(i) == calls[i].status = "returned" /\ calls'[i].status = "failed"

\* C38: with cache: true, a handleCache that fails at reading the file or
\* at compiling (no close tag, a name that is no identifier, a program
\* that does not compile) leaves the cache as it was, so that the next
\* call for the file name awaits the file or the compiler again; a
\* function that fails when it is called stays in the cache.
C38_FailureStoresNothing ==
    [][/\ \A i \in 1..Len(calls) :
             /\ C38_CompileFails(i) => cache' = cache
             /\ C38_RenderFails(i) =>
                   /\ cache' = cache
                   /\ calls[i].args.options.cache =>
                         Has(cache', calls[i].args.options.filename.v)
       /\ (/\ Len(calls') = Len(calls) + 1
           /\ calls # <<>>
           /\ \A i \in 1..Len(calls) : calls[i].status = "threw")
             => calls'[Len(calls')].status \in {"reading", "compiling"}]_vars

\* A render with a template that has no close tag threw; then the file,
\* which prints a name the data does not have, was compiled and stored, and
\* its function threw when called
C38_Witness ==
    /\ Len(calls) = 2
    /\ calls[1].status = "threw"
    /\ calls[1].error.message = NO_CLOSE_TAG
    /\ calls[2].status = "failed"
    /\ calls[2].error.name = "ReferenceError"
    /\ calls[2].template = SHOW_N
    /\ Len(cache) = 1
    /\ cache[1].fn = calls[2].fn


\* generateSource has returned: every token passed the close-tag test and
\* was scanned
C35_Completed == pc \in {"scanning", "compiled", "rendered", "threw"} /\ index > Len(matches)

\* C35: once generateSource has returned without an error the mode is NONE
\* or LITERAL, never EVAL, ESCAPED, RAW or COMMENT, whatever tokens the
\* close-tag test let through.
C35_ModeAtEnd == C35_Completed => mode \in {NONE, LITERAL}

\* The delimiter is none of the characters that make an opening marker:
\* open+delimiter+delimiter is then no other marker
C35_DoubledOpenIsItself == options.delimiter \notin {"_", "=", "-", "#"}

\* C35, where the doubled-open marker is no other marker: the mode at the
\* end is NONE or LITERAL
C35_ModeAtEndOtherwise == (C35_Completed /\ C35_DoubledOpenIsItself) => mode \in {NONE, LITERAL}

\* A template that ends right after a literal marker ends in LITERAL mode
C35_WitnessLiteral ==
    /\ C35_Completed
    /\ C35_DoubledOpenIsItself
    /\ Len(matches) > 0
    /\ mode = LITERAL


\* The scanner takes a close marker in this step
C36_CloseScanned ==
    /\ pc = "scanning"
    /\ index' = index + 1
    /\ matches[index] \in CloseMarkers(options)

\* C36: a close marker scanned in a mode other than LITERAL appends nothing
\* to the source, so that its characters are not in the output; it sets
\* the mode to NONE and the truncate flag to whether it begins with '-' or
\* '_'.  In LITERAL mode its own text is appended as output first.
C36_CloseEmitsInLiteralOnly ==
    [][C36_CloseScanned =>
          /\ mode' = NONE
          /\ truncate' = (Head(matches[index]) \in {"-", "_"})
          /\ currentLine' = currentLine
          /\ source' = IF mode = LITERAL
                       THEN Append(source, Stmt("lit", escapeLiteral(matches[index])))
                       ELSE source]_vars

\* A trim close marker stands in plain text: the text before it is the only
\* output, and the flag is set
C36_Witness ==
    /\ pc = "scanning"
    /\ index = 3
    /\ matches[1] = <<"n">>
    /\ matches[2] = <<"-", "%", ">">>
    /\ source = <<Stmt("lit", <<"n">>)>>
    /\ mode = NONE
    /\ truncate

\* A close marker stands after the doubled-open marker: its text is output
C36_WitnessLiteral ==
    /\ pc = "scanning"
    /\ index = 3
    /\ matches[1] = <<"<", "%", "%">>
    /\ matches[2] = <<"%", ">">>
    /\ source = <<Stmt("lit", <<"<", "%">>), Stmt("lit", <<"%", ">">>)>>
    /\ mode = NONE


\* The mode after the first n tokens
RECURSIVE C37_ModeAfter(_)
C37_ModeAfter(n) ==
    IF n = 0 THEN NONE
    ELSE scanSwitch([InitialScan EXCEPT !.mode = C37_ModeAfter(n - 1)], matches[n],
                    options).mode

\* Token n is content, no marker, and goes through the literal output
C37_LiteralContent(n) ==
    /\ matches[n] \notin ScanMarkers(options)
    /\ C37_ModeAfter(n - 1) \in {NONE, LITERAL}

\* Among the first n tokens the last close marker is a trim close marker
\* and no content went through the literal output after it
RECURSIVE C37_Armed(_)
C37_Armed(n) ==
    IF n = 0 THEN FALSE
    ELSE IF matches[n] \in CloseMarkers(options) THEN Head(matches[n]) \in {"-", "_"}
    ELSE IF C37_LiteralContent(n) THEN FALSE
    ELSE C37_Armed(n - 1)

\* The source after the literal output of a line
C37_Output(src, line) ==
    IF line = <<>> THEN src ELSE Append(src, Stmt("lit", escapeLiteral(line)))

\* The line statement scanLine appends after a token with line breaks
C37_LineStatement(line, n) ==
    IF options.compileDebug /\ Count(line, LF) # 0 THEN <<LineStmt(n)>> ELSE <<>>

\* C37: at every point of the scan the truncate flag is set exactly when
\* the last close marker scanned began with '-' or '_' and no content has
\* gone through the literal output since; opening markers, doubled
\* markers and the content of EVAL, ESCAPED, RAW and COMMENT tags leave it
\* as it is, and the next literal content loses its leading line break.
C37_TruncateFlag ==
    /\ [](pc = "scanning" => truncate = C37_Armed(index - 1))
    /\ [][(/\ pc = "scanning"
           /\ index' = index + 1
           /\ C37_LiteralContent(index)
           /\ truncate)
             => /\ ~truncate'
                /\ source' = C37_Output(source, stripLeadingLineBreak(matches[index]))
                                  \o C37_LineStatement(matches[index], currentLine')]_vars

\* A trim close marker, then the doubled-open marker, then a line break:
\* the flag was still set after the doubled marker, and the line break is
\* not output
C37_Witness ==
    /\ pc = "scanning"
    /\ index = 4
    /\ matches = << <<"-", "%", ">">>, <<"<", "%", "%">>, <<LF>> >>
    /\ C37_Armed(2)
    /\ ~truncate
    /\ options.compileDebug
    /\ source = <<Stmt("lit", <<"<", "%">>), LineStmt(2)>>

\* The flag is still set after the doubled-open marker
C37_WitnessArmed ==
    /\ pc = "scanning"
    /\ index = 3
    /\ matches = << <<"-", "%", ">">>, <<"<", "%", "%">>, <<LF>> >>
    /\ truncate
    /\ mode = LITERAL


\* compile() is called again in this step
C39_Again == pc \in {"compiled", "failed"} /\ pc' # pc

\* C39: compile() goes into generateSource only while the buffer of the
\* Template is empty.  Called again with a buffer that is not empty, after
\* it returned or after it threw for a missing close tag with something
\* already appended, it scans nothing, throws no missing-close-tag error
\* and hands the buffer the earlier call left to the function constructor.
C39_ScansOnlyWhileEmpty ==
    [][C39_Again =>
          IF SourceEmpty THEN pc' = "constructed"
          ELSE /\ pc' \in {"recompiled", "rebuilt", "refailed"}
               /\ source' = source
               /\ <<matches', index', mode', truncate', currentLine', templateText'>>
                    = <<matches, index, mode, truncate, currentLine, templateText>>
               /\ error'.message # NO_CLOSE_TAG
               /\ pc' = "refailed" => error' = constructorSyntaxError(options)
               /\ pc' = "recompiled" <=> pc = "compiled"]_vars

\* compile() threw for the second opening marker of 'n<%', with 'n'
\* appended; called again it made a function of that buffer
C39_Witness ==
    /\ pc = "rebuilt"
    /\ text = <<"n", "<", "%">>
    /\ index = 2
    /\ source = <<Stmt("lit", <<"n">>)>>
    /\ error = NoError

\* compile() returned; called again it made the function anew
C39_WitnessCompiled ==
    /\ pc = "recompiled"
    /\ index > Len(matches)
    /\ source # <<>>

\* compile() threw for the first token; called again it scans again
C39_WitnessScansAgain ==
    /\ pc = "failed"
    /\ error.message = NO_CLOSE_TAG
    /\ source = <<>>
    /\ ENABLED CompileAgain


\* What the code of the included file throws
C40_Thrown ==
    IF \E i \in 1..Len(files[FAILING_ETS]) : files[FAILING_ETS][i] = "q"
    THEN Err("ReferenceError", "", <<"q", "d", "a", "t", "a">> \o NOT_DEFINED)
    ELSE Err("Error", "", WHOOPS)

\* The line of the failing tag in the included file, and of the include in
\* the template
C40_FailingLine == IF Head(files[FAILING_ETS]) = "<" THEN 1 ELSE 2
C40_IncludeLine == Count(text, LF) + 1

\* The error as the wrapper of the failing file throws it
C40_Innermost ==
    rethrow(C40_Thrown, sourceLines(files[FAILING_ETS]), Str(FAILING_ETS), C40_FailingLine,
            options.escape)

\* The error as it reaches the template: through the file between, when the
\* template includes that one
C40_Inner ==
    IF text[Len(text) - 5] = "p"
    THEN rethrow(C40_Innermost, sourceLines(DEEP_TEXT), Str(DEEP_ETS), 2, options.escape)
    ELSE C40_Innermost

\* C40: with compileDebug on, an error thrown by the code of an included
\* file, the include awaited, is decorated by rethrow once for each
\* template it passes, the innermost first: the message the render throws
\* is the decoration of the outermost template around the message the
\* included one threw, and the path is the escaped file name of the
\* outermost template.
C40_DecoratedPerLevel ==
    (pc = "threw" /\ options.compileDebug) =>
       /\ error = rethrow(C40_Inner, sourceLines(templateText), sanitizedFilename(options),
                          C40_IncludeLine, options.escape)
       /\ error.path = Name(escapeFn(options.escape, sanitizedFilename(options)))

\* The template /v/m&.ets includes, on its second line, a file that
\* includes the file whose second line fails: three decorations, and the
\* path of the outermost
C40_Witness ==
    /\ pc = "threw"
    /\ options.compileDebug
    /\ options.filename = Name(AMP_ETS)
    /\ options.escape = "customEscape"
    /\ text = <<LF>> \o AwaitInclude(DEEP)
    /\ C40_FailingLine = 2
    /\ error.name = "ReferenceError"
    /\ error.path = Name(<<"/", "v", "/", "m", "&", "a", "m", "p", ";", ".", "e", "t", "s">>)
    /\ C40_Innermost.path = Name(<<"/", "v", "/", "f", "&", "a", "m", "p", ";", ".", "e", "t", "s">>)
    /\ StartsWith(error.detail, <<"/", "v", "/", "m", "&", "a", "m", "p", ";", ".", "e", "t", "s", ":", "2", LF>>)

====
